---- MODULE Spec2Model ----
(***************************************************************************)
(* The proxy-aware dial path of terraform-provider-scylladb:               *)
(* scylladb.NewClusterConfig (proxy address from the environment),         *)
(* ProxyDialer.DialContext (HTTP CONNECT tunnel) and BufferedConn.Read.    *)
(*                                                                         *)
(* Proxy addresses are sequences of one-character strings, so that         *)
(* strings.HasPrefix and url.Parse are computed on the characters.  HTTP   *)
(* status lines and formatted messages are sequences of tokens (words and  *)
(* the separators between them).                                           *)
(***************************************************************************)
EXTENDS Integers, Sequences, FiniteSets, TLC

(***************************************************************************)
(* Bounds of the model.                                                    *)
(***************************************************************************)
\* at most this many of the proxy environment variables are set at once
MaxEnvSet == 2
\* longest byte sequence the proxy sends after the blank line of its reply
MaxPayload == 2
\* largest buffer a caller passes to Read on the returned connection
MaxRead == 2
\* size of the bufio.Reader's buffer, counted in payload bytes
BufSize == 2

(***************************************************************************)
(* Strings as character sequences.                                         *)
(***************************************************************************)
Letters == {"a","b","c","d","e","f","g","h","i","j","k","l","m","n","o","p",
            "q","r","s","t","u","v","w","x","y","z"}
Digits == {"0","1","2","3","4","5","6","7","8","9"}

\* strings.HasPrefix
HasPrefix(s, prefix) ==
    /\ Len(s) >= Len(prefix)
    /\ SubSeq(s, 1, Len(prefix)) = prefix

\* strings.Index for a one-character separator: 0 when absent (Go: -1)
IndexOf(s, ch) ==
    IF \E i \in 1..Len(s) : s[i] = ch
    THEN CHOOSE i \in 1..Len(s) : s[i] = ch /\ \A j \in 1..(i-1) : s[j] # ch
    ELSE 0

\* strings.LastIndex for a one-character separator: 0 when absent
LastIndexOf(s, ch) ==
    IF \E i \in 1..Len(s) : s[i] = ch
    THEN CHOOSE i \in 1..Len(s) : s[i] = ch /\ \A j \in (i+1)..Len(s) : s[j] # ch
    ELSE 0

\* s[from:] of Go, 1-based
Drop(s, n) == SubSeq(s, n + 1, Len(s))
Take(s, n) == SubSeq(s, 1, n)

Min(a, b) == IF a <= b THEN a ELSE b

HttpPrefix == <<"h","t","t","p",":","/","/">>
HttpsPrefix == <<"h","t","t","p","s",":","/","/">>
Socks5Prefix == <<"s","o","c","k","s","5",":","/","/">>

(***************************************************************************)
(* net/url.Parse, on the characters this model feeds it: letters, digits,  *)
(* '.', ':' and '/'.  ('#', '?', '@', '%', '[' and control characters do   *)
(* not occur in the inputs, so fragment, query, userinfo, escapes and      *)
(* IPv6 literals are not modelled.)                                        *)
(***************************************************************************)
\* url.getScheme: [err, scheme, rest]
getScheme(rawURL) ==
    LET stop(i) == \/ rawURL[i] \notin (Letters \cup Digits \cup {"+","-","."})
                   \/ (i = 1 /\ rawURL[i] \notin Letters)
        stops == {i \in 1..Len(rawURL) : stop(i)}
    IN  IF stops = {}
        THEN [err |-> FALSE, scheme |-> <<>>, rest |-> rawURL]
        ELSE LET i == CHOOSE k \in stops : \A j \in stops : k <= j
             IN  IF rawURL[i] = ":"
                 THEN IF i = 1
                      THEN [err |-> TRUE, scheme |-> <<>>, rest |-> <<>>]
                      ELSE [err |-> FALSE, scheme |-> Take(rawURL, i - 1),
                            rest |-> Drop(rawURL, i)]
                 ELSE [err |-> FALSE, scheme |-> <<>>, rest |-> rawURL]

\* url.validOptionalPort
validOptionalPort(port) ==
    \/ port = <<>>
    \/ /\ port[1] = ":"
       /\ \A i \in 2..Len(port) : port[i] \in Digits

\* url.parseHost without the '[' branch: the host is kept as written when the
\* text from its last ':' on is a valid optional port
parseHostOK(host) ==
    LET i == LastIndexOf(host, ":")
    IN  i = 0 \/ validOptionalPort(Drop(host, i - 1))

NilURL == [nil |-> TRUE]

\* url.Parse: NilURL stands for (nil, err)
urlParse(rawURL) ==
    LET s == getScheme(rawURL)
    IN  IF s.err THEN NilURL
        ELSE IF ~HasPrefix(s.rest, <<"/">>)
        THEN IF s.scheme # <<>>
             THEN [nil |-> FALSE, Scheme |-> s.scheme, Opaque |-> s.rest,
                   Host |-> <<>>, Path |-> <<>>]
             ELSE IF IndexOf(Take(s.rest, IF IndexOf(s.rest, "/") = 0 THEN Len(s.rest)
                                          ELSE IndexOf(s.rest, "/") - 1), ":") # 0
                  THEN NilURL
                  ELSE [nil |-> FALSE, Scheme |-> <<>>, Opaque |-> <<>>,
                        Host |-> <<>>, Path |-> s.rest]
        ELSE IF HasPrefix(s.rest, <<"/","/">>)
                /\ (s.scheme # <<>> \/ ~HasPrefix(s.rest, <<"/","/","/">>))
        THEN LET after == Drop(s.rest, 2)
                 i == IndexOf(after, "/")
                 authority == IF i = 0 THEN after ELSE Take(after, i - 1)
                 path == IF i = 0 THEN <<>> ELSE Drop(after, i - 1)
             IN  IF parseHostOK(authority)
                 THEN [nil |-> FALSE, Scheme |-> s.scheme, Opaque |-> <<>>,
                       Host |-> authority, Path |-> path]
                 ELSE NilURL
        ELSE [nil |-> FALSE, Scheme |-> s.scheme, Opaque |-> <<>>,
              Host |-> <<>>, Path |-> s.rest]

(***************************************************************************)
(* NewClusterConfig                                                        *)
(***************************************************************************)
EnvNames == {"HTTPS_PROXY", "HTTP_PROXY", "https_proxy", "http_proxy"}

\* cmp.Or: the first argument that is not the zero value, else the zero value
RECURSIVE cmpOr(_)
cmpOr(vals) ==
    IF vals = <<>> THEN <<>>
    ELSE IF Head(vals) # <<>> THEN Head(vals)
    ELSE cmpOr(Tail(vals))

NoDialer == [kind |-> "none"]

\* the proxy string NewClusterConfig reads from the environment e
proxyStrOf(e) == cmpOr(<<e["HTTPS_PROXY"], e["HTTP_PROXY"]>>)

\* withScheme with the default scheme mistaken for https
withSchemeHttps(proxyStr) ==
    IF ~HasPrefix(proxyStr, HttpPrefix) /\ ~HasPrefix(proxyStr, HttpsPrefix)
    THEN HttpsPrefix \o proxyStr
    ELSE proxyStr

\* the string handed to url.Parse: "http://" is put in front of a string that
\* starts with neither "http://" nor "https://"
withScheme(proxyStr) ==
    IF ~HasPrefix(proxyStr, HttpPrefix) /\ ~HasPrefix(proxyStr, HttpsPrefix)
    THEN HttpPrefix \o proxyStr
    ELSE proxyStr

\* the Cluster value NewClusterConfig returns in the environment e
NewClusterConfigOf(e) ==
    LET proxyStr == proxyStrOf(e)
    IN  [Dialer |-> IF proxyStr # <<>>
                    THEN [kind |-> "ProxyDialer", ProxyURL |-> urlParse(withScheme(proxyStr))]
                    ELSE NoDialer,
         DisableInitialHostLookup |-> TRUE,
         NumConns |-> 1,
         SystemAuthKeyspaceName |-> "system_auth"]

\* The proxy resolver of the per-host dialer (NewClusterConfigWithDns, called at
\* provider.go:163): an address with the scheme http or https is a
\* configuration error there
hostDialerProxy(proxyStr) ==
    IF HasPrefix(proxyStr, HttpPrefix) \/ HasPrefix(proxyStr, HttpsPrefix)
    THEN [err |-> TRUE, target |-> <<>>]
    ELSE [err |-> FALSE, target |-> proxyStr]

(***************************************************************************)
(* fmt.Sprintf / fmt.Errorf and the error values of the dial path.         *)
(* A format is a sequence of tokens in which "%s" and "%w" are verbs; an   *)
(* argument is a sequence of tokens.                                       *)
(***************************************************************************)
RECURSIVE Sprintf(_, _)
Sprintf(format, args) ==
    IF format = <<>> THEN <<>>
    ELSE IF Head(format) \in {"%s", "%w"}
    THEN Head(args) \o Sprintf(Tail(format), Tail(args))
    ELSE <<Head(format)>> \o Sprintf(Tail(format), args)

NoErr == [type |-> "nil"]

\* *net.OpError returned by net.Dialer.DialContext and net.Conn.Write
OpError(op, why) ==
    [type |-> "net.OpError", text |-> <<op, " tcp: ", why>>]

\* net/http badStringError(what, val): "%s %q"
badStringError(what, val) ==
    [type |-> "http.badStringError", text |-> <<what, " ", "\"">> \o val \o <<"\"">>]

\* io.ErrUnexpectedEOF, what http.ReadResponse returns when the peer closes
\* the connection before a status line was read
ErrUnexpectedEOF == [type |-> "errors.errorString", text |-> <<"unexpected EOF">>]

\* textproto's error for a header block that is not MIME
ErrMalformedHeader ==
    [type |-> "textproto.ProtocolError", text |-> <<"malformed MIME header line">>]

\* fmt.Errorf with one %w verb: a *fmt.wrapError around inner
ErrorfW(format, inner) ==
    [type |-> "fmt.wrapError", text |-> Sprintf(format, <<inner.text>>),
     unwrap |-> inner.type]

\* fmt.Errorf with %s verbs only
ErrorfS(format, args) ==
    [type |-> "errors.errorString", text |-> Sprintf(format, args)]

(***************************************************************************)
(* net/http.ReadResponse on the status line (a token sequence) and the     *)
(* header block of a reply.                                                *)
(***************************************************************************)
\* strconv.Atoi on the status-code tokens of the model that are three
\* characters long; every other token fails len(statusCode) != 3 or Atoi
Atoi3 == ("200" :> 200) @@ ("201" :> 201) @@ ("403" :> 403) @@ ("502" :> 502)

\* http.ParseHTTPVersion, on the protocol tokens of the model
ParseHTTPVersionOK(proto) == proto \in {<<"HTTP/1.0">>, <<"HTTP/1.1">>}

\* strings.TrimLeft(s, " ")
RECURSIVE TrimLeftSpaces(_)
TrimLeftSpaces(s) ==
    IF s # <<>> /\ Head(s) = " " THEN TrimLeftSpaces(Tail(s)) ELSE s

\* http.ReadResponse: [err, Status, StatusCode]
ReadResponse(r) ==
    LET line == r.line
        cut == IndexOf(line, " ")
        proto == IF cut = 0 THEN line ELSE Take(line, cut - 1)
        status == TrimLeftSpaces(Drop(line, cut))
        cut2 == IndexOf(status, " ")
        statusCode == IF cut2 = 0 THEN status ELSE Take(status, cut2 - 1)
        failed(e) == [err |-> e, Status |-> <<>>, StatusCode |-> 0]
    IN  IF cut = 0 THEN failed(badStringError("malformed HTTP response", line))
        ELSE IF Len(statusCode) # 1 \/ statusCode[1] \notin DOMAIN Atoi3
        THEN failed(badStringError("malformed HTTP status code", statusCode))
        ELSE IF ~ParseHTTPVersionOK(proto)
        THEN failed(badStringError("malformed HTTP version", proto))
        ELSE IF r.headers # "ok" THEN failed(ErrMalformedHeader)
        ELSE [err |-> NoErr, Status |-> status, StatusCode |-> Atoi3[statusCode[1]]]

(***************************************************************************)
(* ProxyDialer.DialContext: what each return path hands back.              *)
(* sock is the state of the TCP socket to the proxy, conn the connection   *)
(* returned, err the error returned.                                       *)
(***************************************************************************)
\* http.StatusOK
StatusOK == 200

\* connectRequest with the network argument in the Host header
connectRequestHostNetwork(a) ==
    Sprintf(<<"CONNECT ", "%s", " HTTP/1.1\r\nHost: ", "%s", "\r\n\r\n">>, <<<<a>>, <<"tcp">>>>)

\* fmt.Sprintf("CONNECT %s HTTP/1.1\r\nHost: %s\r\n\r\n", addr, addr)
connectRequest(a) ==
    Sprintf(<<"CONNECT ", "%s", " HTTP/1.1\r\nHost: ", "%s", "\r\n\r\n">>, <<<<a>>, <<a>>>>)

\* d.DialContext failed: return nil, err
connectFailed(why) ==
    [sock |-> "none", conn |-> "none", err |-> OpError("dial", why)]

\* proxyConn.Write failed: proxyConn.Close(); return nil, err
writeFailed(why) ==
    [sock |-> "closed", conn |-> "none", err |-> OpError("write", why)]

\* http.ReadResponse failed with e: proxyConn.Close(); return nil, wrapped e
readFailed(e) ==
    [sock |-> "closed", conn |-> "none",
     err |-> ErrorfW(<<"failed to read proxy response: ", "%w">>, e)]

\* statusRefused that lets every status below 300 through
statusRefusedFrom300(resp) == resp.StatusCode >= 300

\* resp.StatusCode != http.StatusOK
statusRefused(resp) == resp.StatusCode # StatusOK

\* refused without the proxyConn.Close()
refusedNoClose(resp) ==
    [sock |-> "open", conn |-> "none",
     err |-> ErrorfS(<<"proxy refused connection: ", "%s">>, <<resp.Status>>)]

\* refused reported with the message of the read failure
refusedAsReadFailure(resp) ==
    [sock |-> "closed", conn |-> "none",
     err |-> ErrorfW(<<"failed to read proxy response: ", "%w">>,
                     badStringError("unexpected status", resp.Status))]

\* proxyConn.Close(); return nil, "proxy refused connection: " + resp.Status
refused(resp) ==
    [sock |-> "closed", conn |-> "none",
     err |-> ErrorfS(<<"proxy refused connection: ", "%s">>, <<resp.Status>>)]

\* tunnel that always hands back the socket itself
tunnelNeverWraps(buffered) ==
    [sock |-> "open", conn |-> "net.Conn", err |-> NoErr]

\* the connection returned on success: a BufferedConn over the bufio.Reader
\* when it holds unread bytes, else the socket itself
tunnel(buffered) ==
    [sock |-> "open",
     conn |-> IF buffered > 0 THEN "BufferedConn" ELSE "net.Conn",
     err |-> NoErr]

\* lines 62-79: the outcome once http.ReadResponse has returned rr, with
\* buffered bytes left in the bufio.Reader
afterResponse(rr, buffered) ==
    IF rr.err # NoErr THEN readFailed(rr.err)
    ELSE IF statusRefused(rr) THEN refused(rr)
    ELSE tunnel(buffered)

(***************************************************************************)
(* The per-host dialer: DialHost tries the candidate addresses of one      *)
(* logical connection through the SOCKS5 proxy.                            *)
(***************************************************************************)
\* a connection as the client library receives it: the address it is bound
\* to, how many times it was wrapped in TLS, and the server name of the wrap
NoConn == [addr |-> [host |-> "", port |-> ""], tls |-> 0, serverName |-> ""]
rawConn(c) == [addr |-> c, tls |-> 0, serverName |-> ""]

\* no tls.Config
NoTLS == [set |-> FALSE]

\* net.JoinHostPort
JoinHostPort(c) == <<c.host, ":", c.port>>

\* strings.Join(candidates, ", ")
RECURSIVE joinCandidates(_)
joinCandidates(cs) ==
    IF cs = <<>> THEN <<>>
    ELSE IF Len(cs) = 1 THEN JoinHostPort(cs[1])
    ELSE JoinHostPort(Head(cs)) \o <<", ">> \o joinCandidates(Tail(cs))

\* nextCandidate that starts over at the head of the list after a failure
nextCandidateRetry(cs, tried) == cs[1]

\* the candidate DialHost dials after the attempts in tried: the next of the list
nextCandidate(cs, tried) == cs[Len(tried) + 1]

\* exhausted that names the last candidate only
exhaustedLastOnly(cs) ==
    [conn |-> NoConn,
     err |-> ErrorfS(<<"failed to dial any host: ", "%s">>, <<JoinHostPort(cs[Len(cs)])>>)]

\* every candidate failed: no connection, one error naming the candidate list
exhausted(cs) ==
    [conn |-> NoConn,
     err |-> ErrorfS(<<"failed to dial any host: ", "%s">>, <<joinCandidates(cs)>>)]

\* tls.Client(conn, config with ServerName name)
tlsClient(conn, name) == [conn EXCEPT !.tls = @ + 1, !.serverName = name]

\* the SOCKS5 dial of candidate c succeeded: the connection, upgraded with the
\* dialer's TLS configuration when it has one, with c's host as server name
dialed(c, tlsConfig) ==
    [conn |-> IF tlsConfig # NoTLS THEN tlsClient(rawConn(c), c.host) ELSE rawConn(c),
     err |-> NoErr]

(***************************************************************************)
(* Cluster.SetTLS: certificate material is a sequence of PEM blocks; text  *)
(* that is not PEM is a block of type "TEXT".  A block of type             *)
(* "CERTIFICATE" carries its DER bytes (der: "" when they do not parse)    *)
(* and the public key it certifies (pub); a key block carries the key.     *)
(***************************************************************************)
NoSslOpts == [set |-> FALSE]
NoTLSArgs == [called |-> FALSE]
NoCallback == [nil |-> TRUE]

PEMCert(der, pub) == [type |-> "CERTIFICATE", der |-> der, pub |-> pub]
PEMKey(key) == [type |-> "PRIVATE KEY", der |-> key, pub |-> key]
PEMText == [type |-> "TEXT", der |-> "", pub |-> ""]

\* the blocks of type CERTIFICATE whose bytes parse as a certificate
parsedCerts(pem) ==
    {pem[i].der : i \in {k \in 1..Len(pem) : pem[k].type = "CERTIFICATE" /\ pem[k].der # ""}}

\* x509.CertPool.AppendCertsFromPEM on an empty pool: [ok, pool]
AppendCertsFromPEM(pemCerts) ==
    [ok |-> parsedCerts(pemCerts) # {}, pool |-> parsedCerts(pemCerts)]

\* tls.X509KeyPair: the certificate blocks of certPEM with the first key block
\* of keyPEM; fails when there is no certificate block, no key block, a
\* certificate that does not parse, or a key that is not the certificate's
X509KeyPair(certPEM, keyPEM) ==
    LET certs == SelectSeq(certPEM, LAMBDA b : b.type = "CERTIFICATE")
        keys == SelectSeq(keyPEM, LAMBDA b : b.type = "PRIVATE KEY")
        failed(why) == [err |-> [type |-> "errors.errorString", text |-> <<why>>],
                        cert |-> [Certificate |-> <<>>, PrivateKey |-> ""]]
    IN  IF certs = <<>> THEN failed("tls: failed to find any PEM data in certificate input")
        ELSE IF keys = <<>> THEN failed("tls: failed to find any PEM data in key input")
        ELSE IF certs[1].der = "" THEN failed("x509: malformed certificate")
        ELSE IF certs[1].pub # keys[1].der
        THEN failed("tls: private key does not match public key")
        ELSE [err |-> NoErr,
              cert |-> [Certificate |-> [i \in 1..Len(certs) |-> certs[i].der],
                        PrivateKey |-> keys[1].der]]

\* the closure registered as GetClientCertificate: it returns the address of
\* the local variable cert, which nothing assigns after X509KeyPair
certCallback(cert) == [nil |-> FALSE, returns |-> cert]

\* lines 132-141 without the GetClientCertificate callback
withClientCertNoCallback(tlsConfig, cert) ==
    [tlsConfig EXCEPT !.Certificates = <<cert>>]

\* lines 138-141: the key pair in Certificates and in the callback
withClientCert(tlsConfig, cert) ==
    [tlsConfig EXCEPT !.Certificates = <<cert>>, !.GetClientCertificate = certCallback(cert)]

\* line 128 with the flag copied instead of negated
insecureSkipVerifySame(enableHostVerification) == enableHostVerification

\* line 128: InsecureSkipVerify: !enableHostVerification
insecureSkipVerify(enableHostVerification) == ~enableHostVerification

\* lines 123-125 that accept a pool without certificates
caRejectedNever(ca) == FALSE

\* lines 123-125: ok is false
caRejected(ca) == ~ca.ok

\* SetTLS: [err, SslOpts] (SslOpts as the call leaves it, given it was before)
SetTLSOf(before, caCert, clientCert, clientKey, enableHostVerification) ==
    LET ca == AppendCertsFromPEM(caCert)
        tlsConfig == [set |-> TRUE, RootCAs |-> ca.pool,
                      InsecureSkipVerify |-> insecureSkipVerify(enableHostVerification),
                      Certificates |-> <<>>, GetClientCertificate |-> NoCallback]
        pair == X509KeyPair(clientCert, clientKey)
        done(cfg) == [err |-> NoErr,
                      SslOpts |-> [set |-> TRUE, Config |-> cfg,
                                   EnableHostVerification |-> enableHostVerification]]
    IN  IF caRejected(ca)
        THEN [err |-> [type |-> "errors.errorString",
                       text |-> <<"failed to append CA certificate">>],
              SslOpts |-> before]
        ELSE IF Len(clientCert) > 0 /\ Len(clientKey) > 0
        THEN IF pair.err # NoErr THEN [err |-> pair.err, SslOpts |-> before]
             ELSE done(withClientCert(tlsConfig, pair.cert))
        ELSE done(tlsConfig)

\* The TLS configuration as the per-host dialer keeps it: it upgrades the
\* connections itself, the client library's SslOpts path not being used for
\* a custom host dialer
hostDialerWithTLS(hd, r) ==
    IF hd # NoDialer /\ r.err = NoErr
    THEN [hd EXCEPT !.tlsConfig = r.SslOpts.Config]
    ELSE hd

\* gocql's setupTLSConfig on SslOpts with a Config and no CaPath, CertPath or
\* KeyPath: a copy of Config, with InsecureSkipVerify cleared when
\* EnableHostVerification is set
setupTLSConfig(sslOpts) ==
    IF sslOpts = NoSslOpts THEN NoTLS
    ELSE IF sslOpts.Config.InsecureSkipVerify /\ sslOpts.EnableHostVerification
    THEN [sslOpts.Config EXCEPT !.InsecureSkipVerify = FALSE]
    ELSE sslOpts.Config

\* gocql's WrapTLS with tls.Client wrapping every connection twice
WrapTLSTwice(conn, tlsConfig) ==
    IF tlsConfig # NoTLS
    THEN tlsClient(tlsClient(conn, conn.addr.host), conn.addr.host)
    ELSE conn

\* gocql's WrapTLS: tls.Client with the host of the dialed address as server
\* name when there is a TLS configuration, else the connection as it is
WrapTLS(conn, tlsConfig) ==
    IF tlsConfig # NoTLS THEN tlsClient(conn, conn.addr.host) ELSE conn

\* net.SplitHostPort on the destinations of the model
SplitHostPort ==
    ("10.0.0.5:9042" :> [host |-> "10.0.0.5", port |-> "9042"]) @@
    ("10.0.0.6:9042" :> [host |-> "10.0.0.6", port |-> "9042"])

(***************************************************************************)
(* Inputs                                                                  *)
(***************************************************************************)
HostPort1 == <<"h", ":", "1">>
HostPort2 == <<"g", ":", "2">>
\* a string url.Parse rejects once "http://" is in front: invalid port ":x"
BadPort == <<"h", ":", "x">>

ProxyStrings ==
    {<<>>, HostPort1, HostPort2, HttpPrefix \o HostPort1, HttpsPrefix \o HostPort1,
     Socks5Prefix \o HostPort1, BadPort}

\* destinations gocql dials through the dialer
Addrs == {"10.0.0.5:9042", "10.0.0.6:9042"}

\* A reply of the proxy: the status line and header block it sends, with what
\* the sender meant: wellFormed (an HTTP response) and statusText (the status
\* code and reason phrase as sent)
MkReply(line, headers, wellFormed, statusText) ==
    [line |-> line, headers |-> headers, wellFormed |-> wellFormed,
     statusText |-> statusText]

NoReply == MkReply(<<>>, "none", FALSE, <<>>)

Replies ==
    { MkReply(<<"HTTP/1.1", " ", "200", " ", "Connection", " ", "Established">>, "ok",
              TRUE, <<"200", " ", "Connection", " ", "Established">>),
      MkReply(<<"HTTP/1.0", " ", "200", " ", "OK">>, "ok", TRUE, <<"200", " ", "OK">>),
      MkReply(<<"HTTP/1.1", " ", "200">>, "ok", TRUE, <<"200">>),
      MkReply(<<"HTTP/1.1", " ", "201", " ", "Created">>, "ok", TRUE, <<"201", " ", "Created">>),
      MkReply(<<"HTTP/1.1", " ", "403", " ", "Forbidden">>, "ok", TRUE, <<"403", " ", "Forbidden">>),
      MkReply(<<"HTTP/1.1", " ", " ", "502", " ", "Bad", " ", "Gateway">>, "ok",
              TRUE, <<"502", " ", "Bad", " ", "Gateway">>),
      MkReply(<<"HTTP/1.1", " ", "200", " ", "OK">>, "malformed", FALSE, <<"200", " ", "OK">>),
      MkReply(<<"garbage">>, "ok", FALSE, <<>>),
      MkReply(<<"HTTP/1.1", " ", "20", " ", "OK">>, "ok", FALSE, <<"20", " ", "OK">>),
      MkReply(<<"SSH-2.0", " ", "200", " ", "OK">>, "ok", FALSE, <<"200", " ", "OK">>) }

\* most candidate addresses handed to one DialHost call
MaxCandidates == 2

\* the cluster members a DialHost call gets as candidates
HostCandidates ==
    {[host |-> "10.0.0.5", port |-> "9042"], [host |-> "10.0.0.6", port |-> "9042"],
     [host |-> "10.0.0.7", port |-> "9042"], [host |-> "10.0.0.8", port |-> "9042"]}

\* candidate lists: up to MaxCandidates distinct addresses, in any order
CandidateLists ==
    {cs \in UNION {[1..k -> HostCandidates] : k \in 1..MaxCandidates} :
        \A i, j \in 1..Len(cs) : cs[i] = cs[j] => i = j}

\* nameserver addresses of the provider configuration ("": none)
DnsAddresses == {"", "10.0.0.2"}

\* CA certificate inputs: empty, text that is not PEM, a certificate block
\* that does not parse, a key block, one certificate, text and a certificate
CACerts ==
    {<<>>, <<PEMText>>, <<PEMCert("", "")>>, <<PEMKey("key1")>>,
     <<PEMCert("ca1", "cakey")>>, <<PEMText, PEMCert("ca1", "cakey")>>}

\* client certificate and key inputs
ClientCerts == {<<>>, <<PEMText>>, <<PEMCert("cert1", "key1")>>}
ClientKeys == {<<>>, <<PEMKey("key1")>>, <<PEMKey("key2")>>}

\* most calls of GetClientCertificate followed on one connection
MaxCertRequests == 2

(***************************************************************************)
(* The inputs of Configure: the attributes of the provider block and the   *)
(* SCYLLADB_* environment.  types.String and types.Bool are [null, value]. *)
(***************************************************************************)
Null == [null |-> TRUE, value |-> ""]
Str(v) == [null |-> FALSE, value |-> v]
BoolNull == [null |-> TRUE, value |-> FALSE]
Bool(b) == [null |-> FALSE, value |-> b]
NoBlock == [nil |-> TRUE]
NoAuthenticator == [set |-> FALSE]

\* the files of the model: path :> content; os.ReadFile fails on other paths
Files ==
    ("ca.pem" :> <<PEMCert("ca1", "cakey")>>) @@ ("empty.pem" :> <<>>) @@
    ("cert.pem" :> <<PEMCert("cert1", "key1")>>) @@ ("key.pem" :> <<PEMKey("key1")>>)

\* os.ReadFile: [err, data]
ReadFile(path) ==
    IF path \in DOMAIN Files
    THEN [err |-> NoErr, data |-> Files[path]]
    ELSE [err |-> OpError("open", "no such file or directory"), data |-> <<>>]

\* SCYLLADB_CA_CERT, SCYLLADB_CLIENT_CERT and SCYLLADB_CLIENT_KEY
TLSEnv(ca, cert, key) == [ca |-> ca, cert |-> cert, key |-> key]

\* a run with a host and nothing else
DefaultConf ==
    [getErr |-> FALSE, Host |-> Str("scylla"), SCYLLADB_HOST |-> "", DnsAddress |-> Null,
     SystemAuthKeyspace |-> Null, AuthLoginUserPass |-> NoBlock, SCYLLADB_PASSWORD |-> "",
     tlsEnv |-> TLSEnv(<<>>, <<>>, <<>>), CAcertFile |-> Null,
     SkipHostVerification |-> BoolNull, AuthTLS |-> NoBlock]

\* the other values of each input
OtherValues ==
    [getErr |-> {TRUE},
     Host |-> {Null, Str("")},
     SCYLLADB_HOST |-> {"scylla-env"},
     DnsAddress |-> {Str("10.0.0.2")},
     SystemAuthKeyspace |-> {Str("system")},
     AuthLoginUserPass |->
         {[nil |-> FALSE, Username |-> Str("cassandra"), Password |-> pw] :
              pw \in {Null, Str(""), Str("cassandra")}},
     SCYLLADB_PASSWORD |-> {"secret"},
     tlsEnv |-> {TLSEnv(<<PEMCert("ca1", "cakey")>>, <<>>, <<>>),
                 TLSEnv(<<PEMText>>, <<>>, <<>>),
                 TLSEnv(<<PEMCert("ca1", "cakey")>>, <<PEMCert("cert1", "key1")>>,
                        <<PEMKey("key1")>>),
                 TLSEnv(<<PEMCert("ca1", "cakey")>>, <<PEMCert("cert1", "key1")>>,
                        <<PEMKey("key2")>>),
                 TLSEnv(<<>>, <<PEMCert("cert1", "key1")>>, <<PEMKey("key1")>>)},
     CAcertFile |-> {Str("ca.pem"), Str("empty.pem"), Str("missing.pem")},
     SkipHostVerification |-> {Bool(TRUE), Bool(FALSE)},
     AuthTLS |-> {[nil |-> FALSE, CertFile |-> Str("cert.pem"), KeyFile |-> Str("key.pem")],
                  [nil |-> FALSE, CertFile |-> Str("missing.pem"), KeyFile |-> Str("key.pem")],
                  [nil |-> FALSE, CertFile |-> Str("cert.pem"), KeyFile |-> Str("missing.pem")],
                  [nil |-> FALSE, CertFile |-> Str("cert.pem"), KeyFile |-> Null]}]

\* most inputs of a run that differ from DefaultConf
MaxSettings == 3

\* the runs that differ from c in at most k of the inputs F
RECURSIVE Vary(_, _, _)
Vary(c, F, k) ==
    IF k = 0 \/ F = {} THEN {c}
    ELSE LET f == CHOOSE g \in F : TRUE
         IN  Vary(c, F \ {f}, k) \cup
             UNION {Vary([c EXCEPT ![f] = v], F \ {f}, k - 1) : v \in OtherValues[f]}

Confs == Vary(DefaultConf, DOMAIN OtherValues, MaxSettings)

\* the proxy environments of the provider runs: none, an HTTP proxy, a SOCKS5
\* proxy, a SOCKS5 address that url.Parse rejects
NoProxyEnv == [v \in EnvNames |-> <<>>]
ProviderEnvs ==
    {NoProxyEnv,
     [NoProxyEnv EXCEPT !["HTTPS_PROXY"] = HttpPrefix \o HostPort1],
     [NoProxyEnv EXCEPT !["HTTP_PROXY"] = Socks5Prefix \o HostPort1],
     [NoProxyEnv EXCEPT !["https_proxy"] = Socks5Prefix \o BadPort]}

\* concurrent DialContext calls
NumCalls == 2
Calls == 1..NumCalls

\* a call that has not started
IdleCall ==
    [pc |-> "idle", addr |-> "", target |-> <<>>, sock |-> "none", sent |-> <<>>,
     reply |-> NoReply, payload |-> <<>>, inbox |-> <<>>, pending |-> <<>>, br |-> <<>>,
     result |-> [conn |-> "none", err |-> NoErr], out |-> <<>>]

\* the replies and the tunnel bytes of the proxy in the concurrent runs
ConcurrentReplies ==
    {r \in Replies : r.line \in {<<"HTTP/1.0", " ", "200", " ", "OK">>,
                                 <<"HTTP/1.1", " ", "403", " ", "Forbidden">>}}
ConcurrentPayloads == {<<>>, <<"x">>, <<"y">>}

\* the environments of the concurrent runs: a proxy in one variable
ConcurrentEnvs ==
    {[NoProxyEnv EXCEPT !["HTTPS_PROXY"] = HostPort1],
     [NoProxyEnv EXCEPT !["HTTP_PROXY"] = HttpPrefix \o HostPort2]}

(***************************************************************************)
(* Roles: the Role struct, the statements the role functions build and     *)
(* what the server does with them.                                         *)
(***************************************************************************)
\* Role{}
ZeroRole == [Role |-> "", CanLogin |-> FALSE, IsSuperuser |-> FALSE, MemberOf |-> <<>>]
MkRole(name, login, super) ==
    [Role |-> name, CanLogin |-> login, IsSuperuser |-> super, MemberOf |-> <<>>]

\* stmt is the statement the function sent to the server, <<>> when it sent none
NoRoleRet == [op |-> "none", name |-> "", role |-> ZeroRole, err |-> NoErr, stmt |-> <<>>]

\* gocql.ErrNotFound
ErrNotFound == [type |-> "errors.errorString", text |-> <<"not found">>]

\* role names as character sequences, by the name the model shows them under
RoleChars ==
    ("testRole" :> <<"t","e","s","t","R","o","l","e">>) @@
    ("cassandra" :> <<"c","a","s","s","a","n","d","r","a">>) @@
    ("test-role" :> <<"t","e","s","t","-","r","o","l","e">>)
RoleNames == DOMAIN RoleChars

\* the roles a fresh server has: the default superuser
InitialRoles ==
    ("cassandra" :> [can_login |-> TRUE, is_superuser |-> TRUE, member_of |-> <<>>])

\* the keyspace in which the server keeps the roles table
ServerAuthKeyspace == "system_auth"
AuthKeyspaces == {"system_auth", "system"}

\* most role operations that succeed in one run
MaxRoleOps == 3

\* unicode.IsLetter and unicode.IsDigit on the characters of the model
UpperLetters == {"A","B","C","D","E","F","G","H","I","J","K","L","M",
                 "N","O","P","Q","R","S","T","U","V","W","X","Y","Z"}
IsLetter(r) == r \in Letters \cup UpperLetters
IsDigit(r) == r \in Digits

\* validateRoleName: the error of the first character that is no letter, no
\* digit and not '_'
validateRoleName(name) ==
    LET chars == RoleChars[name]
        bad == {i \in 1..Len(chars) :
                    ~IsLetter(chars[i]) /\ ~IsDigit(chars[i]) /\ chars[i] # "_"}
    IN  IF bad = {} THEN NoErr
        ELSE ErrorfS(<<"invalid character in role name: ", "%s">>,
                     <<<<chars[CHOOSE i \in bad : \A j \in bad : i <= j]>>>>)

\* fmt's %v of a bool
FormatBool(b) == IF b THEN "true" ELSE "false"

\* lines 130, 135: the statement text, as its literal pieces and its values
createRoleQuery(role) ==
    Sprintf(<<"CREATE ROLE '", "%s", "' WITH LOGIN = ", "%s", " AND SUPERUSER = ", "%s">>,
            <<<<role.Role>>, <<FormatBool(role.CanLogin)>>, <<FormatBool(role.IsSuperuser)>>>>)

\* updateRoleQuery with the two flags in each other's place
updateRoleQuerySwapped(role) ==
    Sprintf(<<"ALTER ROLE '", "%s", "' WITH LOGIN = ", "%s", " AND SUPERUSER = ", "%s">>,
            <<<<role.Role>>, <<FormatBool(role.IsSuperuser)>>, <<FormatBool(role.CanLogin)>>>>)

updateRoleQuery(role) ==
    Sprintf(<<"ALTER ROLE '", "%s", "' WITH LOGIN = ", "%s", " AND SUPERUSER = ", "%s">>,
            <<<<role.Role>>, <<FormatBool(role.CanLogin)>>, <<FormatBool(role.IsSuperuser)>>>>)

\* line 140
deleteRoleQuery(role) == Sprintf(<<"DROP ROLE '", "%s", "'">>, <<<<role.Role>>>>)

\* line 114
getRoleQuery(keyspace) ==
    Sprintf(<<"SELECT role, can_login, is_superuser, member_of FROM ", "%s",
              ".roles WHERE role = ?">>, <<<<keyspace>>>>)

\* the server's boolean literal
ParseBool(t) == t = "true"

\* the server executes a role statement on the table db: [err, db]
ExecRole(db, stmt) ==
    LET name == stmt[2]
        failed(why) == [err |-> [type |-> "gocql.RequestErrInvalid", text |-> <<why>>],
                        db |-> db]
        row(login, super, members) ==
            [can_login |-> login, is_superuser |-> super, member_of |-> members]
    IN  IF stmt[1] = "CREATE ROLE '"
        THEN IF name \in DOMAIN db THEN failed("role already exists")
             ELSE [err |-> NoErr,
                   db |-> (name :> row(ParseBool(stmt[4]), ParseBool(stmt[6]), <<>>)) @@ db]
        ELSE IF stmt[1] = "ALTER ROLE '"
        THEN IF name \notin DOMAIN db THEN failed("role doesn't exist")
             ELSE [err |-> NoErr,
                   db |-> [db EXCEPT ![name] =
                              row(ParseBool(stmt[4]), ParseBool(stmt[6]), @.member_of)]]
        ELSE IF name \notin DOMAIN db THEN failed("role doesn't exist")
             ELSE [err |-> NoErr, db |-> [n \in DOMAIN db \ {name} |-> db[n]]]

\* lines 113-122: the row of roleName scanned into a Role; gocql's Scan
\* returns ErrNotFound when the query has no row
QueryRole(db, stmt, roleName) ==
    IF stmt[2] # ServerAuthKeyspace
    THEN [role |-> ZeroRole,
          err |-> [type |-> "gocql.RequestErrInvalid", text |-> <<"unconfigured table roles">>]]
    ELSE IF roleName \notin DOMAIN db THEN [role |-> ZeroRole, err |-> ErrNotFound]
    ELSE [role |-> [Role |-> roleName, CanLogin |-> db[roleName].can_login,
                    IsSuperuser |-> db[roleName].is_superuser,
                    MemberOf |-> db[roleName].member_of],
          err |-> NoErr]

(***************************************************************************)
(* Grants: the Grant struct, the statements the three templates render,    *)
(* and what the server does with them.                                     *)
(***************************************************************************)
MkGrant(role, privilege, type, keyspace, identifier) ==
    [RoleName |-> role, Privilege |-> privilege, ResourceType |-> type,
     Keyspace |-> keyspace, Identifier |-> identifier]

\* Grant{}
ZeroGrant == MkGrant("", "", "", "", "")

\* a Go string as the pieces of a text: the empty string adds nothing
Text(s) == IF s = "" THEN <<>> ELSE <<s>>

\* the resource of the three templates:
\* {{if .Keyspace}}"{{.Keyspace}}"{{end}}{{if and .Keyspace .Identifier}}.{{end}}
\* {{if .Identifier}}"{{.Identifier}}"{{end}}
templateResource(grant) ==
    (IF grant.Keyspace # "" THEN <<"\"", grant.Keyspace, "\"">> ELSE <<>>)
    \o (IF grant.Keyspace # "" /\ grant.Identifier # "" THEN <<".">> ELSE <<>>)
    \o (IF grant.Identifier # "" THEN <<"\"", grant.Identifier, "\"">> ELSE <<>>)

createGrantTemplate(grant) ==
    <<"GRANT ", grant.Privilege, " ON ", grant.ResourceType, " ">>
    \o templateResource(grant) \o <<" TO \"", grant.RoleName, "\"">>

\* deleteGrantTemplate that renders a GRANT
deleteGrantTemplateGrants(grant) ==
    <<"GRANT ", grant.Privilege, " ON ", grant.ResourceType, " ">>
    \o templateResource(grant) \o <<" TO \"", grant.RoleName, "\"">>

deleteGrantTemplate(grant) ==
    <<"REVOKE ", grant.Privilege, " ON ", grant.ResourceType, " ">>
    \o templateResource(grant) \o <<" FROM \"", grant.RoleName, "\"">>

readGrantTemplate(grant) ==
    <<"LIST ", grant.Privilege, " ON ", grant.ResourceType, " ">>
    \o templateResource(grant) \o <<" OF \"", grant.RoleName, "\"">>

\* strings.ToUpper on the words of the model
ToUpper(s) ==
    CASE s = "table" -> "TABLE"
      [] s = "keyspace" -> "KEYSPACE"
      [] s = "role" -> "ROLE"
      [] s = "select" -> "SELECT"
      [] s = "alter" -> "ALTER"
      [] s = "all permissions" -> "ALL PERMISSIONS"
      [] OTHER -> s

\* getResourceName: the key of the role_permissions row, "" for another type
getResourceName(grant) ==
    LET t == ToUpper(grant.ResourceType)
    IN  CASE t = "ALL KEYSPACES" -> <<"data">>
          [] t = "KEYSPACE" -> <<"data/">> \o Text(grant.Keyspace)
          [] t = "TABLE" -> <<"data/">> \o Text(grant.Keyspace) \o <<"/">> \o Text(grant.Identifier)
          [] t = "ALL ROLES" -> <<"roles">>
          [] t = "ROLE" -> <<"roles/">> \o Text(grant.Keyspace)
          [] OTHER -> <<>>

\* the keyspaces and tables of the server (setupTestKeyspaceAndTable)
ServerKeyspaces == {"cycling"}
ServerTables == {<<"cycling", "cyclist_name">>}

\* the permissions of the server, in the order it lists them
AllPermissions == <<"ALTER", "AUTHORIZE", "CREATE", "DESCRIBE", "DROP", "MODIFY", "SELECT">>

\* the permissions that apply to a resource of the server
Applicable(res) ==
    CASE res = <<"data">> -> {"ALTER", "AUTHORIZE", "CREATE", "DROP", "MODIFY", "SELECT"}
      [] res = <<"roles">> -> {"ALTER", "AUTHORIZE", "CREATE", "DESCRIBE", "DROP"}
      [] Len(res) = 2 /\ res[1] = "data/" ->
             {"ALTER", "AUTHORIZE", "CREATE", "DROP", "MODIFY", "SELECT"}
      [] Len(res) = 2 /\ res[1] = "roles/" -> {"ALTER", "AUTHORIZE", "DROP"}
      [] OTHER -> {"ALTER", "AUTHORIZE", "DROP", "MODIFY", "SELECT"}

\* the resource and the resources above it, the resource itself last
WithParents(res) ==
    CASE Len(res) = 4 -> <<<<"data">>, <<"data/", res[2]>>, res>>
      [] Len(res) = 2 /\ res[1] = "data/" -> <<<<"data">>, res>>
      [] Len(res) = 2 /\ res[1] = "roles/" -> <<<<"roles">>, res>>
      [] OTHER -> <<res>>

\* the quoted names of a statement's resource
quotedNames(stmt) ==
    SelectSeq(SubSeq(stmt, 6, Len(stmt) - 3), LAMBDA t : t \notin {"\"", "."})

\* the resource a statement names, as the server's parser reads it for the
\* session (which has no keyspace in use): [ok, res, why]
namedResource(stmt) ==
    LET t == ToUpper(stmt[4])
        names == quotedNames(stmt)
        bad(why) == [ok |-> FALSE, res |-> <<>>, why |-> why]
        good(res) == [ok |-> TRUE, res |-> res, why |-> ""]
    IN  CASE t = "ALL KEYSPACES" ->
                 IF names = <<>> THEN good(<<"data">>) ELSE bad("syntax error")
          [] t = "KEYSPACE" ->
                 IF Len(names) # 1 THEN bad("syntax error")
                 ELSE good(<<"data/", names[1]>>)
          [] t = "TABLE" ->
                 IF Len(names) = 0 THEN bad("syntax error")
                 ELSE IF Len(names) = 1 THEN bad("No keyspace has been specified")
                 ELSE good(<<"data/", names[1], "/", names[2]>>)
          [] t = "ALL ROLES" ->
                 IF names = <<>> THEN good(<<"roles">>) ELSE bad("syntax error")
          [] t = "ROLE" ->
                 IF Len(names) # 1 THEN bad("syntax error")
                 ELSE good(<<"roles/", names[1]>>)
          [] OTHER -> bad("syntax error")

\* the resource res is one the server has
resourceExists(res, existingRoles) ==
    CASE Len(res) = 4 -> <<res[2], res[4]>> \in ServerTables
      [] Len(res) = 2 /\ res[1] = "data/" -> res[2] \in ServerKeyspaces
      [] Len(res) = 2 /\ res[1] = "roles/" -> res[2] \in existingRoles
      [] OTHER -> TRUE

\* the resource a statement names, when the server has it: [ok, res, why]
statementResource(stmt, existingRoles) ==
    LET r == namedResource(stmt)
    IN  IF r.ok /\ ~resourceExists(r.res, existingRoles)
        THEN [ok |-> FALSE, res |-> r.res, why |-> "resource doesn't exist"]
        ELSE r

\* the permissions a statement names on the resource res
statementPermissions(stmt, res) ==
    IF ToUpper(stmt[2]) \in {"ALL PERMISSIONS", "ALL"} THEN Applicable(res)
    ELSE {ToUpper(stmt[2])}

\* the resource as the server's LIST shows it
shownResource(res) ==
    CASE res = <<"data">> -> <<"<all keyspaces>">>
      [] res = <<"roles">> -> <<"<all roles>">>
      [] Len(res) = 4 -> <<"<table ", res[2], ".", res[4], ">">>
      [] res[1] = "data/" -> <<"<keyspace ", res[2], ">">>
      [] OTHER -> <<"<role ", res[2], ">">>

\* the rows LIST returns for role: the permissions in perms the role holds
\* on one of the resources in chain, resource by resource
RECURSIVE listRows(_, _, _, _, _)
listRows(db, role, chain, perms, k) ==
    IF chain = <<>> THEN <<>>
    ELSE IF k > Len(AllPermissions) THEN listRows(db, role, Tail(chain), perms, 1)
    ELSE LET p == AllPermissions[k]
             row == [Role |-> role, Username |-> role,
                     Resource |-> shownResource(Head(chain)), Permission |-> p]
         IN  (IF p \in perms /\ [role |-> role, resource |-> Head(chain), permission |-> p] \in db
              THEN <<row>> ELSE <<>>)
             \o listRows(db, role, chain, perms, k + 1)

\* the server executes a GRANT, REVOKE or LIST statement on the grants db:
\* [err, db, rows]
ExecGrant(db, existingRoles, stmt) ==
    LET role == stmt[Len(stmt) - 1]
        r == statementResource(stmt, existingRoles)
        perms == statementPermissions(stmt, r.res)
        failed(why) == [err |-> [type |-> "gocql.RequestErrInvalid", text |-> <<why>>],
                        db |-> db, rows |-> <<>>]
        triples == {[role |-> role, resource |-> r.res, permission |-> p] : p \in perms}
    IN  IF ~r.ok THEN failed(r.why)
        ELSE IF role \notin existingRoles THEN failed("role doesn't exist")
        ELSE IF ~(perms \subseteq Applicable(r.res))
        THEN failed("permission does not apply to the resource")
        ELSE IF stmt[1] = "GRANT " THEN [err |-> NoErr, db |-> db \cup triples, rows |-> <<>>]
        ELSE IF stmt[1] = "REVOKE " THEN [err |-> NoErr, db |-> db \ triples, rows |-> <<>>]
        ELSE [err |-> NoErr, db |-> db,
              rows |-> listRows(db, role, WithParents(r.res), perms, 1)]

\* the permissions column of the role_permissions row of role and resource,
\* a set the server returns in order: <<>> when there is no row
RECURSIVE permissionsRow(_, _, _, _)
permissionsRow(db, role, resourceName, k) ==
    IF k > Len(AllPermissions) THEN <<>>
    ELSE (IF [role |-> role, resource |-> resourceName, permission |-> AllPermissions[k]] \in db
          THEN <<AllPermissions[k]>> ELSE <<>>)
         \o permissionsRow(db, role, resourceName, k + 1)

\* lines 347-351: the SELECT on role_permissions scanned into permissions;
\* gocql's Scan returns ErrNotFound when the query has no row
QueryPermissions(db, keyspace, role, resourceName) ==
    IF keyspace # ServerAuthKeyspace
    THEN [permissions |-> <<>>,
          err |-> [type |-> "gocql.RequestErrInvalid",
                   text |-> <<"unconfigured table role_permissions">>]]
    ELSE IF permissionsRow(db, role, resourceName, 1) = <<>>
    THEN [permissions |-> <<>>, err |-> ErrNotFound]
    ELSE [permissions |-> permissionsRow(db, role, resourceName, 1), err |-> NoErr]

\* the grants the callers pass: the grant of TestGrantMethods, all
\* permissions on the same table, a permission on its keyspace, a table the
\* server does not have, a role named by the identifier and by the keyspace,
\* and a resource type outside the five
GrantInputs ==
    {MkGrant("testRole", "select", "table", "cycling", "cyclist_name"),
     MkGrant("testRole", "ALL PERMISSIONS", "TABLE", "cycling", "cyclist_name"),
     MkGrant("testRole", "SELECT", "KEYSPACE", "cycling", ""),
     MkGrant("testRole", "SELECT", "TABLE", "cycling", "missing"),
     MkGrant("testRole", "ALTER", "ROLE", "", "cassandra"),
     MkGrant("testRole", "ALTER", "ROLE", "cassandra", ""),
     MkGrant("testRole", "SELECT", "MATERIALIZED VIEW", "cycling", "cyclist_name")}

\* most calls of the grant functions in one run
MaxGrantOps == 3

\* what a grant function returned: n counts the calls, stmts are the
\* statements the call sent and answers what the server answered to each,
\* before the grants of the server when the call began
NoGrantRet ==
    [n |-> 0, op |-> "none", grant |-> ZeroGrant, to |-> ZeroGrant, permissions |-> <<>>,
     found |-> FALSE, err |-> NoErr, stmts |-> <<>>, answers |-> <<>>,
     resourceName |-> <<>>, before |-> {}]

(***************************************************************************)
(* The grant resource and the role resource of the provider: their models, *)
(* the plans and ids Terraform hands them, and what their methods answer.  *)
(***************************************************************************)
\* most calls of resource methods in one run
MaxResourceOps == 3

\* an attribute of a plan that is known only after apply
Unknown == [unknown |-> TRUE]

\* types.List of strings
ListNull == [null |-> TRUE, elems |-> <<>>]
ListValue(s) == [null |-> FALSE, elems |-> s]

\* types.ListValueFrom on a []string: the nil slice becomes the null list
ListValueFrom(s) == IF s = <<>> THEN ListNull ELSE ListValue(s)

\* a state or a plan without a value: Raw.IsNull()
RawNull == [raw |-> "null"]

\* Diagnostics.AddError(summary, detail)
Diag(summary, detail) == [summary |-> summary, detail |-> detail]

\* grantResourceModel as Terraform plans it from a configuration: keyspace
\* and identifier are null when the configuration leaves them out
grantPlan(role, privilege, type, keyspace, identifier) ==
    [ID |-> Unknown, LastUpdated |-> Unknown, RoleName |-> Str(role),
     Privilege |-> Str(privilege), ResourceType |-> Str(type), Keyspace |-> keyspace,
     Identifier |-> identifier, Permissions |-> Unknown]

\* the scylladb.Grant of a model: ValueString() of each attribute
grantOf(model) ==
    MkGrant(model.RoleName.value, model.Privilege.value, model.ResourceType.value,
            model.Keyspace.value, model.Identifier.value)

\* fmt.Sprintf("%s|%s|%s|%s|%s", ...) of Create
grantID(grant) ==
    Sprintf(<<"%s", "|", "%s", "|", "%s", "|", "%s", "|", "%s">>,
            <<Text(grant.RoleName), Text(grant.Privilege), Text(grant.ResourceType),
              Text(grant.Keyspace), Text(grant.Identifier)>>)

\* strings.Split(s, sep) on the pieces of s: the parts between the separators
RECURSIVE Split(_, _)
Split(s, sep) ==
    IF s = <<>> THEN <<<<>>>>
    ELSE LET rest == Split(Tail(s), sep)
         IN  IF Head(s) = sep THEN <<<<>>>> \o rest
             ELSE <<<<Head(s)>> \o Head(rest)>> \o Tail(rest)

\* the Go string of a part; the parts of the model have one piece at most
Word(part) == IF part = <<>> THEN "" ELSE part[1]

\* Cluster.GetGrantPermissions(grant) ([]string, error): the permissions
\* column of the grant's row of role_permissions, nil for a resource type
\* that has no row name
GetGrantPermissions(db, keyspace, grant) ==
    IF getResourceName(grant) = <<>> THEN [permissions |-> <<>>, err |-> NoErr]
    ELSE QueryPermissions(db, keyspace, grant.RoleName, getResourceName(grant))

\* grantResource.Create: [db, Diagnostics, State]; now is the time of the call
grantCreateOf(plan, db, existingRoles, keyspace, now) ==
    LET grant == grantOf(plan)
        c == ExecGrant(db, existingRoles, createGrantTemplate(grant))
        p == GetGrantPermissions(c.db, keyspace, grant)
    IN  IF c.err # NoErr
        THEN [db |-> db, State |-> RawNull,
              Diagnostics |-> <<Diag("Error Creating Grant", c.err.text)>>]
        ELSE IF p.err # NoErr
        THEN [db |-> c.db, State |-> RawNull,
              Diagnostics |-> <<Diag("Error Getting Grant Permissions", p.err.text)>>]
        ELSE [db |-> c.db, Diagnostics |-> <<>>,
              State |-> [plan EXCEPT !.Permissions = ListValueFrom(p.permissions),
                                     !.ID = Str(grantID(grant)),
                                     !.LastUpdated = Str(now)]]

\* grantResource.ImportState: [Diagnostics, State]
grantImportStateOf(ID, db, keyspace) ==
    LET parts == Split(ID, "|")
        grant == MkGrant(Word(parts[1]), Word(parts[2]), Word(parts[3]), Word(parts[4]),
                         Word(parts[5]))
        p == GetGrantPermissions(db, keyspace, grant)
    IN  IF Len(parts) # 5
        THEN [State |-> RawNull,
              Diagnostics |-> <<Diag("Invalid Import ID",
                  <<"Expected ID format: RoleName|Privilege|ResourceType|Keyspace|Identifier, got: ">> \o ID)>>]
        ELSE IF p.err # NoErr
        THEN [State |-> RawNull, Diagnostics |-> <<Diag("Error Reading Grant", p.err.text)>>]
        ELSE [Diagnostics |-> <<>>,
              State |-> [ID |-> Str(ID), LastUpdated |-> Null,
                         RoleName |-> Str(Word(parts[1])),
                         Privilege |-> Str(Word(parts[2])),
                         ResourceType |-> Str(Word(parts[3])),
                         Keyspace |-> IF Word(parts[4]) # "" THEN Str(Word(parts[4]))
                                      ELSE Null,
                         Identifier |-> IF Word(parts[4]) # "" /\ Word(parts[5]) # ""
                                        THEN Str(Word(parts[5])) ELSE Null,
                         Permissions |-> ListValueFrom(p.permissions)]]

\* ModifyPlan that marks the replacement whatever the two lists hold
grantModifyPlanOfAlways(State, Plan, db, keyspace) ==
    LET p == GetGrantPermissions(db, keyspace, grantOf(State))
        unchanged(Diagnostics) ==
            [Plan |-> Plan, RequiresReplace |-> <<>>, Diagnostics |-> Diagnostics]
    IN  IF State = RawNull \/ Plan = RawNull THEN unchanged(<<>>)
        ELSE IF p.err # NoErr
        THEN unchanged(<<Diag("Error Reading Grant", p.err.text)>>)
        ELSE [Plan |-> [Plan EXCEPT !.Permissions = ListValueFrom(p.permissions)],
              RequiresReplace |-> <<"permissions">>, Diagnostics |-> <<>>]

\* grantResource.ModifyPlan: [Plan, RequiresReplace, Diagnostics] of the
\* response, which starts as the requested plan
grantModifyPlanOf(State, Plan, db, keyspace) ==
    LET p == GetGrantPermissions(db, keyspace, grantOf(State))
        statePermissions == State.Permissions.elems
        unchanged(Diagnostics) ==
            [Plan |-> Plan, RequiresReplace |-> <<>>, Diagnostics |-> Diagnostics]
    IN  IF State = RawNull \/ Plan = RawNull THEN unchanged(<<>>)
        ELSE IF p.err # NoErr
        THEN unchanged(<<Diag("Error Reading Grant", p.err.text)>>)
        ELSE IF p.permissions = statePermissions THEN unchanged(<<>>)
        ELSE [Plan |-> [Plan EXCEPT !.Permissions = ListValueFrom(p.permissions)],
              RequiresReplace |-> <<"permissions">>, Diagnostics |-> <<>>]

\* the plans of the grant resource: the two grants of TestAccGrantResource,
\* all keyspaces with the empty keyspace written out, and a role named by
\* the identifier
GrantPlans ==
    {grantPlan("testRole", "ALTER", "KEYSPACE", Str("cycling"), Null),
     grantPlan("testRole", "ALTER", "TABLE", Str("cycling"), Str("cyclist_name")),
     grantPlan("testRole", "SELECT", "ALL KEYSPACES", Str(""), Null),
     grantPlan("testRole", "ALTER", "ROLE", Null, Str("cassandra"))}

\* the ids given to the import: those Create builds for the plans, and ids
\* of one, four and six parts
GrantImportIDs ==
    {grantID(grantOf(p)) : p \in GrantPlans}
    \cup {<<"testRole">>,
          <<"testRole", "|", "ALTER", "|", "KEYSPACE", "|", "cycling">>,
          <<"testRole", "|", "ALTER", "|", "TABLE", "|", "cycling", "|", "cyclist_name",
            "|", "x">>}

\* grants made and revoked outside Terraform
OutsideGrants == {MkGrant("testRole", "SELECT", "TABLE", "cycling", "cyclist_name")}

\* roleResourceModel as Terraform plans it from a configuration: can_login
\* and is_superuser are null when the configuration leaves them out, and
\* MemberOf is the Go slice, nil when member_of is left out
rolePlan(role, login, super, members) ==
    [ID |-> Unknown, LastUpdated |-> Unknown, Role |-> Str(role), CanLogin |-> login,
     IsSuperuser |-> super, MemberOf |-> members]

\* planToRole: ValueString() and ValueBool() of the attributes
planToRole(plan) ==
    [Role |-> plan.Role.value, CanLogin |-> plan.CanLogin.value,
     IsSuperuser |-> plan.IsSuperuser.value,
     MemberOf |-> [i \in 1..Len(plan.MemberOf) |-> plan.MemberOf[i].value]]

\* Cluster.CreateRole as the resource calls it: [err, db]
createRoleOf(db, role) ==
    IF validateRoleName(role.Role) # NoErr
    THEN [err |-> validateRoleName(role.Role), db |-> db]
    ELSE ExecRole(db, createRoleQuery(role))

\* roleResource.Create and roleResource.Update: [db, Diagnostics, State]
roleCreateOf(plan, db, now) ==
    LET role == planToRole(plan)
        x == createRoleOf(db, role)
    IN  IF x.err # NoErr
        THEN [db |-> db, State |-> RawNull,
              Diagnostics |-> <<Diag("Unable to create the role", x.err.text)>>]
        ELSE [db |-> x.db, Diagnostics |-> <<>>,
              State |-> [plan EXCEPT !.ID = Str(role.Role), !.LastUpdated = Str(now)]]

roleUpdateOf(State, plan, db, now) ==
    LET role == planToRole(plan)
        x == ExecRole(db, updateRoleQuery(role))
    IN  IF x.err # NoErr
        THEN [db |-> db, State |-> State,
              Diagnostics |-> <<Diag("Unable to update the role", x.err.text)>>]
        ELSE [db |-> x.db, Diagnostics |-> <<>>,
              State |-> [plan EXCEPT !.ID = Str(role.Role), !.LastUpdated = Str(now)]]

\* roleResource.Read: [Diagnostics, State]
roleReadOf(State, db, keyspace, now) ==
    LET x == QueryRole(db, getRoleQuery(keyspace), State.ID.value)
        curRole == x.role
    IN  IF x.err # NoErr
        THEN [State |-> State,
              Diagnostics |-> <<Diag("Unable to read the role", x.err.text)>>]
        ELSE [Diagnostics |-> <<>>,
              State |-> [ID |-> Str(curRole.Role), Role |-> Str(curRole.Role),
                         CanLogin |-> Bool(curRole.CanLogin),
                         IsSuperuser |-> Bool(curRole.IsSuperuser),
                         LastUpdated |-> Str(now),
                         MemberOf |-> [i \in 1..Len(curRole.MemberOf) |->
                                          Str(curRole.MemberOf[i])]]]

\* roleResource.ImportState: resource.ImportStatePassthroughID on "id"
roleImportStateOf(ID) ==
    [ID |-> Str(ID), LastUpdated |-> Null, Role |-> Null, CanLogin |-> BoolNull,
     IsSuperuser |-> BoolNull, MemberOf |-> <<>>]

\* the plans of the role resource: the two of TestAccRoleResource, one that
\* leaves the flags out and one with a member_of
RolePlans ==
    {rolePlan("testRole", Bool(FALSE), Bool(FALSE), <<>>),
     rolePlan("testRole", Bool(TRUE), Bool(FALSE), <<>>),
     rolePlan("testRole", BoolNull, BoolNull, <<>>),
     rolePlan("testRole", Bool(FALSE), Bool(FALSE), <<Str("cassandra")>>)}

\* the request of a resource method: the id of an import as its pieces, the
\* state and the plan
NoReq == [ID |-> <<>>, State |-> RawNull, Plan |-> RawNull]

\* the response of the last resource method: the resource and the method,
\* the request, the grants of the server when it was called, and what the
\* method set
NoResp ==
    [res |-> "none", op |-> "none", req |-> NoReq, grants |-> {}, Diagnostics |-> <<>>,
     State |-> RawNull, Plan |-> RawNull, RequiresReplace |-> <<>>]

\* Terraform before any resource method was called
NoTf ==
    [n |-> 0, grantState |-> RawNull, grantDb |-> {}, roleState |-> RawNull,
     rolePlanned |-> RawNull, plannedBy |-> "none", roleDb |-> InitialRoles,
     resp |-> NoResp]

\* most returns of SetTLS and CreateSession in one run
MaxHandleOps == 3

\* what the client library returns when it reaches no host
ErrNoConnections ==
    [type |-> "errors.errorString",
     text |-> <<"gocql: unable to create session: unable to discover protocol version">>]

\* most hostname lookups followed in one run
MaxLookups == 2

Bytes == {"x", "y"}
SeqsUpTo(S, n) == UNION {[1..k -> S] : k \in 0..n}
Payloads == SeqsUpTo(Bytes, MaxPayload)

(***************************************************************************)
(* State                                                                   *)
(***************************************************************************)
VARIABLES
    env,         \* the process environment: EnvNames -> proxy string
    cluster,     \* the Cluster returned by NewClusterConfig
    pc,          \* "new", "ready", then the position of the DialContext call
    addr,        \* DialContext's addr argument
    ctx,         \* the caller's context: [hasDeadline, done]
    dialTarget,  \* the address DialContext passes to net.Dialer
    sock,        \* the socket to the proxy: "none", "open", "closed"
    ioLog,       \* the Write and Read calls DialContext made on the socket
    reply,       \* the reply the proxy sent (NoReply: none so far)
    payload,     \* the bytes the proxy sends after the blank line
    headArrived, \* the reply's header is in the socket's receive queue
    inbox,       \* payload bytes received by the socket, not yet read from it
    pending,     \* payload bytes the proxy has not sent yet
    peerClosed,  \* the proxy closed the connection without replying
    br,          \* unread payload bytes in the bufio.Reader
    result,      \* what DialContext returned: [conn, err]
    out,         \* concatenation of the Reads on the returned connection
    cause        \* why the call failed, as the proxy and the network know it

\* state of the tunnel (ProxyDialer.DialContext and the returned connection)
\* the tunnel state but the cluster handle and the position
tunnelCallVars == <<env, addr, ctx, dialTarget, sock, ioLog, reply, payload,
                    headArrived, inbox, pending, peerClosed, br, result, out, cause>>
tunnelVars == <<env, cluster, pc, addr, ctx, dialTarget, sock, ioLog, reply, payload,
                headArrived, inbox, pending, peerClosed, br, result, out, cause>>

configVars == <<env, cluster>>
callVars == <<addr, ctx, dialTarget>>
wireVars == <<reply, payload, headArrived, inbox, pending, peerClosed>>

\* The per-host dialer (gocql.HostDialer) and one DialHost call on it
VARIABLES
    hostDialer,  \* the per-host dialer installed on the cluster, or NoDialer
    candidates,  \* the candidate addresses of the call, in order
    attempts,    \* the SOCKS5 dials the call made: <<[addr, ok], ...>>
    hpc,         \* position of the call: "idle", "try", "done"
    hresult      \* what the call returned: [conn, err]

hostVars == <<hostDialer, candidates, attempts, hpc, hresult>>
hostCallVars == <<candidates, attempts, hpc, hresult>>

\* The TLS options of the cluster and the connections the client library gets
VARIABLES
    SslOpts,     \* Cluster.SslOpts: NoSslOpts, or [Config, EnableHostVerification]
    tlsArgs,     \* the arguments of the SetTLS call
    tlsRet,      \* what SetTLS returned: [called, err]
    handed,      \* the connection handed to the client library
    certsGiven   \* what the calls of Config.GetClientCertificate returned

tlsVars == <<SslOpts, tlsArgs, tlsRet, handed, certsGiven>>
tlsSetupVars == <<SslOpts, tlsArgs, tlsRet>>

\* Name resolution of the process
VARIABLES
    resolver,    \* net.DefaultResolver: [installs, server] (server "": the system's)
    lookups      \* where the hostname lookups went: <<[server, via], ...>>

dnsVars == <<resolver, lookups>>

\* One run of the provider's Configure, and the rest of the cluster handle
VARIABLES
    conf,          \* the provider configuration and SCYLLADB_* environment of the run
    ppc,           \* position of Configure: "idle", "cluster", "keyspace", "auth",
                   \* "tls", "check", "session", "done", "panic"
    diags,         \* resp.Diagnostics: the summaries of the errors added
    calls,         \* the scylladb functions Configure called, in order
    Authenticator, \* Cluster.Authenticator
    Session,       \* Cluster.Session: "nil" or "open"
    resp           \* [DataSourceData, ResourceData] of the response

provVars == <<conf, ppc, diags, calls, Authenticator, Session, resp>>

\* Concurrent DialContext calls on the ProxyDialer of the cluster
VARIABLES
    dial           \* per call: its arguments, locals, socket, connection and reads

\* The roles of the database and the role functions of the Cluster
VARIABLES
    roles,         \* the roles table of the server: role name :> its row
    roleOps,       \* the CreateRole, UpdateRole and DeleteRole calls that succeeded
    roleRet        \* what the last role function returned: [op, name, role, err, stmt]

roleVars == <<roles, roleOps, roleRet>>

\* The Cluster handle's operations that return an error
VARIABLE handleRet   \* what SetTLS and CreateSession returned, oldest first: [op, err]

\* The grants of the database and the grant functions of the Cluster
VARIABLES
    grants,        \* the role_permissions of the server: [role, resource, permission]
    grantRet,      \* what the last grant function returned
    writes         \* the last two CreateGrant, DeleteGrant and UpdateGrant calls that
                   \* succeeded, oldest first: [op, grant, before]

grantVars == <<grants, grantRet, writes>>

\* Terraform's side of the grant resource and of the role resource
VARIABLE tf      \* [n, grantState, grantDb, roleState, rolePlanned, plannedBy, roleDb,
                 \* resp]: the calls made, the state Create stored for the grant and
                 \* the grants then, the state held for the role, the one Create or
                 \* Update stored last, which of the two, and the roles then, and the
                 \* last response

\* the objects of the database the provider manages, and Terraform's view
aclVars == <<roleVars, grantVars, tf>>

\* the subsystems that follow
laterVars == <<lookups, provVars, dial, aclVars, handleRet>>

\* everything the tunnel actions leave alone
outsideTunnel == <<hostVars, tlsVars, resolver, laterVars>>

vars == <<tunnelVars, outsideTunnel>>

NoCluster == [Dialer |-> NoDialer, DisableInitialHostLookup |-> FALSE, NumConns |-> 0,
              SystemAuthKeyspaceName |-> ""]

\* no per-host dialer installed, no DialHost call made
HostInit ==
    /\ hostDialer = NoDialer
    /\ candidates = <<>>
    /\ attempts = <<>>
    /\ hpc = "idle"
    /\ hresult = [conn |-> NoConn, err |-> NoErr]

\* SetTLS not called, no connection handed over
TLSInit ==
    /\ SslOpts = NoSslOpts
    /\ tlsArgs = NoTLSArgs
    /\ tlsRet = [called |-> FALSE, err |-> NoErr]
    /\ handed = NoConn
    /\ certsGiven = <<>>

\* the resolver of the system, no lookup made
DNSInit ==
    /\ resolver = [installs |-> 0, server |-> "", via |-> "none"]
    /\ lookups = <<>>

\* Configure not called
NotConfigured ==
    /\ conf = DefaultConf
    /\ ppc = "idle"
    /\ diags = <<>>
    /\ calls = <<>>
    /\ Authenticator = NoAuthenticator
    /\ Session = "nil"
    /\ resp = [DataSourceData |-> "nil", ResourceData |-> "nil"]

OutsideInit ==
    /\ HostInit
    /\ TLSInit
    /\ DNSInit
    /\ NotConfigured
    /\ dial = [i \in Calls |-> IdleCall]
    /\ roles = InitialRoles
    /\ roleOps = <<>>
    /\ roleRet = NoRoleRet
    /\ handleRet = <<>>
    /\ grants = {}
    /\ grantRet = NoGrantRet
    /\ writes = <<>>
    /\ tf = NoTf

\* the environments in which at most n of the proxy variables are set
EnvsWithAtMost(n) ==
    {e \in [EnvNames -> ProxyStrings] : Cardinality({v \in EnvNames : e[v] # <<>>}) <= n}

\* the state of a process started in one of the environments E
InitIn(E) ==
    /\ env \in E
    /\ cluster = NoCluster
    /\ pc = "new"
    /\ addr = ""
    /\ ctx = [hasDeadline |-> FALSE, done |-> FALSE]
    /\ dialTarget = <<>>
    /\ sock = "none"
    /\ ioLog = <<>>
    /\ reply = NoReply
    /\ payload = <<>>
    /\ headArrived = FALSE
    /\ inbox = <<>>
    /\ pending = <<>>
    /\ peerClosed = FALSE
    /\ br = <<>>
    /\ result = [conn |-> "none", err |-> NoErr]
    /\ out = <<>>
    /\ cause = "none"
    /\ OutsideInit

\* The tunnel is explored in the environments that set at most one variable:
\* DialContext depends on the environment through cluster.Dialer only.
Init == InitIn(EnvsWithAtMost(1))

\* The configuration is explored in the environments that set up to
\* MaxEnvSet variables.
ConfigInit == InitIn(EnvsWithAtMost(MaxEnvSet))

(***************************************************************************)
(* Actions                                                                 *)
(***************************************************************************)
NewClusterConfig ==
    /\ pc = "new"
    /\ cluster' = NewClusterConfigOf(env)
    /\ pc' = "ready"
    /\ UNCHANGED <<outsideTunnel, env, callVars, sock, ioLog, wireVars, br, result, out, cause>>

\* gocql calls the installed dialer.  Lines 44-50: the context gets the 30 s
\* timeout when it has no deadline, then p.ProxyURL.Host is read: a nil
\* ProxyURL is a nil pointer dereference, and the call panics.
DialContextStart(a, hasDeadline) ==
    /\ pc = "ready"
    /\ cluster.Dialer # NoDialer
    /\ addr' = a
    /\ ctx' = [hasDeadline |-> hasDeadline, done |-> FALSE]
    /\ IF cluster.Dialer.ProxyURL.nil
       THEN /\ pc' = "panic"
            /\ UNCHANGED dialTarget
       ELSE /\ pc' = "dial"
            /\ dialTarget' = cluster.Dialer.ProxyURL.Host
    /\ UNCHANGED <<outsideTunnel, configVars, sock, ioLog, wireVars, br, result, out, cause>>

\* the caller cancels, or the deadline (the caller's, else the 30 s default) passes
CtxDone ==
    /\ pc \in {"dial", "write", "read"}
    /\ ~ctx.done
    /\ ctx' = [ctx EXCEPT !.done = TRUE]
    /\ UNCHANGED <<outsideTunnel, configVars, pc, addr, dialTarget, sock, ioLog, wireVars, br, result,
                   out, cause>>

Return(o, why) ==
    /\ sock' = o.sock
    /\ result' = [conn |-> o.conn, err |-> o.err]
    /\ cause' = why
    /\ pc' = "done"

\* line 50: net.Dialer.DialContext connects
ConnectOK ==
    /\ pc = "dial"
    /\ ~ctx.done
    /\ sock' = "open"
    /\ pc' = "write"
    /\ UNCHANGED <<outsideTunnel, configVars, callVars, ioLog, wireVars, br, result, out, cause>>

\* lines 50-53: net.Dialer.DialContext fails (refused, or the context is done)
ConnectFail ==
    /\ pc = "dial"
    /\ Return(connectFailed(IF ctx.done THEN "operation was canceled"
                            ELSE "connection refused"), "network")
    /\ UNCHANGED <<outsideTunnel, configVars, callVars, ioLog, wireVars, br, out>>

\* lines 55-56: the CONNECT request is written
WriteOK ==
    /\ pc = "write"
    /\ ioLog' = Append(ioLog, [op |-> "Write", data |-> connectRequest(addr)])
    /\ pc' = "read"
    /\ UNCHANGED <<outsideTunnel, configVars, callVars, sock, wireVars, br, result, out, cause>>

\* lines 55-59: the write fails
WriteFail ==
    /\ pc = "write"
    /\ ioLog' = Append(ioLog, [op |-> "Write", data |-> connectRequest(addr)])
    /\ Return(writeFailed("broken pipe"), "network")
    /\ UNCHANGED <<outsideTunnel, configVars, callVars, wireVars, br, out>>

\* the proxy answers the request: the header and the first k payload bytes
\* arrive together.  Tunnel bytes follow a reply of status 200 only.
ProxyReply(r, pl, k) ==
    /\ pc = "read"
    /\ reply = NoReply
    /\ ~peerClosed
    /\ k \in 0..Len(pl)
    /\ pl # <<>> => (r.wellFormed /\ r.statusText[1] = "200")
    /\ reply' = r
    /\ payload' = pl
    /\ headArrived' = TRUE
    /\ inbox' = Take(pl, k)
    /\ pending' = Drop(pl, k)
    /\ UNCHANGED <<outsideTunnel, configVars, pc, callVars, sock, ioLog, peerClosed, br, result, out, cause>>

\* more payload bytes arrive at the socket
ProxyDeliver(n) ==
    /\ sock = "open"
    /\ n \in 1..Len(pending)
    /\ inbox' = inbox \o Take(pending, n)
    /\ pending' = Drop(pending, n)
    /\ UNCHANGED <<outsideTunnel, configVars, pc, callVars, sock, ioLog, reply, payload, headArrived,
                   peerClosed, br, result, out, cause>>

\* the proxy closes the connection instead of replying
ProxyClose ==
    /\ pc = "read"
    /\ reply = NoReply
    /\ ~peerClosed
    /\ peerClosed' = TRUE
    /\ UNCHANGED <<outsideTunnel, configVars, pc, callVars, sock, ioLog, reply, payload, headArrived,
                   inbox, pending, br, result, out, cause>>

\* lines 62-79, when the connection ended before a reply: ReadResponse fails
ReadEOF ==
    /\ pc = "read"
    /\ peerClosed
    /\ ioLog' = Append(ioLog, [op |-> "Read", data |-> <<>>])
    /\ Return(afterResponse([err |-> ErrUnexpectedEOF, Status |-> <<>>, StatusCode |-> 0], 0),
              "read")
    /\ UNCHANGED <<outsideTunnel, configVars, callVars, wireVars, br, out>>

\* lines 62-79, when the header has arrived: the bufio.Reader takes the header
\* and as many of the received payload bytes as it has room for, ReadResponse
\* parses the header, and DialContext returns
ReadReply ==
    /\ pc = "read"
    /\ headArrived
    /\ LET n == Min(BufSize, Len(inbox))
           rr == ReadResponse(reply)
           o == afterResponse(rr, n)
       IN  /\ ioLog' = Append(ioLog, [op |-> "Read", data |-> <<>>])
           /\ headArrived' = FALSE
           /\ br' = Take(inbox, n)
           /\ inbox' = Drop(inbox, n)
           /\ Return(o, IF ~reply.wellFormed THEN "malformed"
                        ELSE IF reply.statusText[1] # "200" THEN "refused"
                        ELSE "none")
    /\ UNCHANGED <<outsideTunnel, configVars, callVars, reply, payload, pending, peerClosed, out>>

\* net.Conn.Read on the socket: up to n of the received bytes
SocketRead(n) ==
    /\ inbox # <<>>
    /\ out' = out \o Take(inbox, Min(n, Len(inbox)))
    /\ inbox' = Drop(inbox, Min(n, Len(inbox)))
    /\ UNCHANGED br

\* bufio.Reader.Read: from the buffer when it holds bytes; else one read of
\* the socket, straight into p when p is at least as large as the buffer,
\* into the buffer otherwise
BufioRead(n) ==
    IF br # <<>>
    THEN /\ out' = out \o Take(br, Min(n, Len(br)))
         /\ br' = Drop(br, Min(n, Len(br)))
         /\ UNCHANGED inbox
    ELSE IF n >= BufSize
    THEN SocketRead(n)
    ELSE /\ inbox # <<>>
         /\ LET got == Take(inbox, Min(BufSize, Len(inbox)))
            IN  /\ out' = out \o Take(got, Min(n, Len(got)))
                /\ br' = Drop(got, Min(n, Len(got)))
                /\ inbox' = Drop(inbox, Len(got))

\* the Read method of the connection DialContext returned
connRead(conn, n) ==
    IF conn = "BufferedConn" THEN BufioRead(n) ELSE SocketRead(n)

\* the caller reads from the returned connection with a buffer of n bytes
ConnRead(n) ==
    /\ pc = "done"
    /\ result.conn # "none"
    /\ connRead(result.conn, n)
    /\ UNCHANGED <<outsideTunnel, configVars, pc, callVars, sock, ioLog, reply, payload, headArrived,
                   pending, peerClosed, result, cause>>

(***************************************************************************)
(* The cluster configuration with a per-host dialer, and DialHost          *)
(***************************************************************************)
\* the proxy string of NewClusterConfigWithDns in the environment e
proxyStrWithDnsOf(e) ==
    cmpOr(<<e["HTTPS_PROXY"], e["HTTP_PROXY"], e["https_proxy"], e["http_proxy"]>>)

\* NewClusterConfigWithDns fails on a socks5 address that url.Parse rejects
proxyRejected(e) ==
    /\ HasPrefix(proxyStrWithDnsOf(e), Socks5Prefix)
    /\ urlParse(proxyStrWithDnsOf(e)).nil

\* the per-host dialer NewClusterConfigWithDns installs for a socks5 proxy
hostDialerOf(e) ==
    LET proxyStr == proxyStrWithDnsOf(e)
    IN  IF HasPrefix(proxyStr, Socks5Prefix) /\ ~proxyRejected(e)
        THEN [kind |-> "HostDialer", proxy |-> Drop(proxyStr, Len(Socks5Prefix)),
              tlsConfig |-> NoTLS]
        ELSE NoDialer

\* the Cluster value NewClusterConfigWithDns returns in the environment e: the
\* per-address dialer for a proxy that is not socks5
NewClusterConfigWithDnsOf(e) ==
    LET proxyStr == proxyStrWithDnsOf(e)
    IN  IF proxyRejected(e) THEN NoCluster ELSE
        [Dialer |-> IF proxyStr # <<>> /\ ~HasPrefix(proxyStr, Socks5Prefix)
                    THEN [kind |-> "ProxyDialer", ProxyURL |-> urlParse(withScheme(proxyStr))]
                    ELSE NoDialer,
         DisableInitialHostLookup |-> TRUE,
         NumConns |-> 1,
         SystemAuthKeyspaceName |-> "system_auth"]

\* resolverOf that installs the override for every nameserver address
resolverOfAnyProxy(before, e, dns) ==
    IF dns # ""
    THEN [installs |-> before.installs + 1, server |-> dns,
          via |-> IF HasPrefix(proxyStrWithDnsOf(e), Socks5Prefix) THEN "HostDialer"
                  ELSE "ProxyDialer"]
    ELSE before

\* net.DefaultResolver after NewClusterConfigWithDns: replaced, when there is
\* a proxy and a nameserver address, by a resolver that dials the nameserver
\* through the proxy dialer
resolverOf(before, e, dns) ==
    IF proxyStrWithDnsOf(e) # <<>> /\ ~proxyRejected(e) /\ dns # ""
    THEN [installs |-> before.installs + 1, server |-> dns,
          via |-> IF HasPrefix(proxyStrWithDnsOf(e), Socks5Prefix) THEN "HostDialer"
                  ELSE "ProxyDialer"]
    ELSE before

\* the address a lookup connects to, and the dialer it connects through
lookupTarget(r) ==
    IF r.server = "" THEN [server |-> <<"system">>, via |-> "none"]
    ELSE [server |-> <<r.server, ":", "53">>, via |-> r.via]

NewClusterConfigWithDns(dns) ==
    /\ pc = "new"
    /\ cluster' = NewClusterConfigWithDnsOf(env)
    /\ hostDialer' = hostDialerOf(env)
    /\ resolver' = resolverOf(resolver, env, dns)
    /\ pc' = IF proxyRejected(env) THEN "failed" ELSE "ready"
    /\ UNCHANGED <<env, callVars, sock, ioLog, wireVars, br, result, out, cause>>
    /\ UNCHANGED <<hostCallVars, tlsVars, laterVars>>

\* the client library asks the per-host dialer for a connection to one of cs
DialHostStart(cs) ==
    /\ pc = "ready"
    /\ hostDialer # NoDialer
    /\ hpc = "idle"
    /\ candidates' = cs
    /\ hpc' = "try"
    /\ UNCHANGED <<tunnelVars, hostDialer, attempts, hresult, tlsVars, resolver, laterVars>>

\* the SOCKS5 dial of the next candidate succeeds: DialHost returns
SocksOK ==
    /\ hpc = "try"
    /\ LET c == nextCandidate(candidates, attempts)
       IN  /\ attempts' = Append(attempts, [addr |-> c, ok |-> TRUE])
           /\ hresult' = dialed(c, hostDialer.tlsConfig)
           /\ handed' = dialed(c, hostDialer.tlsConfig).conn
    /\ hpc' = "done"
    /\ UNCHANGED <<tunnelVars, hostDialer, candidates, tlsSetupVars, certsGiven, resolver, laterVars>>

\* the SOCKS5 dial of the next candidate fails: DialHost goes on to the
\* candidate after it, or returns when there is none
SocksFail ==
    /\ hpc = "try"
    /\ LET c == nextCandidate(candidates, attempts)
       IN  attempts' = Append(attempts, [addr |-> c, ok |-> FALSE])
    /\ IF Len(attempts) + 1 = Len(candidates)
       THEN /\ hresult' = exhausted(candidates)
            /\ hpc' = "done"
       ELSE UNCHANGED <<hresult, hpc>>
    /\ UNCHANGED <<tunnelVars, hostDialer, candidates, tlsVars, resolver, laterVars>>

(***************************************************************************)
(* SetTLS and the connections of the client library                        *)
(***************************************************************************)
\* Cluster.SetTLS, called on the cluster configuration before the first dial
SetTLS(caCert, clientCert, clientKey, enableHostVerification) ==
    /\ pc = "ready"
    /\ Len(handleRet) < MaxHandleOps
    /\ hpc = "idle"
    /\ handed = NoConn
    /\ \A i \in Calls : dial[i].pc = "idle"
    /\ LET r == SetTLSOf(SslOpts, caCert, clientCert, clientKey, enableHostVerification)
       IN  /\ SslOpts' = r.SslOpts
           /\ tlsRet' = [called |-> TRUE, err |-> r.err]
           /\ hostDialer' = hostDialerWithTLS(hostDialer, r)
           /\ handleRet' = Append(handleRet, [op |-> "SetTLS", err |-> r.err])
    /\ tlsArgs' = [called |-> TRUE, caCert |-> caCert, clientCert |-> clientCert,
                   clientKey |-> clientKey,
                   enableHostVerification |-> enableHostVerification]
    /\ UNCHANGED <<tunnelVars, hostCallVars, handed, certsGiven, resolver, lookups, provVars, dial, aclVars>>

\* the TLS configuration the connections are upgraded with
tlsConfigInUse ==
    IF hostDialer # NoDialer THEN hostDialer.tlsConfig ELSE setupTLSConfig(SslOpts)

\* no dialer on the cluster: the client library dials a itself, then WrapTLS
DefaultDialHostDirect(a) ==
    /\ pc = "ready"
    /\ cluster.Dialer = NoDialer
    /\ hostDialer = NoDialer
    /\ handed = NoConn
    /\ handed' = WrapTLS(rawConn(SplitHostPort[a]), setupTLSConfig(SslOpts))
    /\ UNCHANGED <<tunnelVars, hostVars, tlsSetupVars, certsGiven, resolver, laterVars>>

\* the ProxyDialer returned a connection to the client library: WrapTLS
DefaultDialHostTunnel ==
    /\ pc = "done"
    /\ result.conn # "none"
    /\ handed = NoConn
    /\ handed' = WrapTLS(rawConn(SplitHostPort[addr]), setupTLSConfig(SslOpts))
    /\ UNCHANGED <<tunnelVars, hostVars, tlsSetupVars, certsGiven, resolver, laterVars>>

\* the server asks for a client certificate during a handshake on the
\* connection: crypto/tls calls Config.GetClientCertificate
GetClientCertificate ==
    /\ handed # NoConn
    /\ handed.tls > 0
    /\ ~tlsConfigInUse.GetClientCertificate.nil
    /\ Len(certsGiven) < MaxCertRequests
    /\ certsGiven' = Append(certsGiven, tlsConfigInUse.GetClientCertificate.returns)
    /\ UNCHANGED <<tunnelVars, hostVars, tlsSetupVars, handed, resolver, laterVars>>

(***************************************************************************)
(* scylladbProvider.Configure, in the order of its statements              *)
(***************************************************************************)
\* resp.Diagnostics.HasError that is never true
hasErrorNever(d) == FALSE

\* resp.Diagnostics.HasError: every diagnostic Configure adds is an error
hasError(d) == d # <<>>

\* lines 132-136: SCYLLADB_HOST, overridden by the host attribute when set
hostOf(c) == IF ~c.Host.null THEN c.Host.value ELSE c.SCYLLADB_HOST

\* dnsAddressOf that drops the attribute
dnsAddressUnset(c) == ""

\* lines 159-162: the dns_address attribute, "" when null
dnsAddressOf(c) == IF ~c.DnsAddress.null THEN c.DnsAddress.value ELSE ""

\* lines 183-186: SCYLLADB_PASSWORD, overridden by the password attribute
passwordOf(c) ==
    IF ~c.AuthLoginUserPass.Password.null THEN c.AuthLoginUserPass.Password.value
    ELSE c.SCYLLADB_PASSWORD

\* skipOf that ignores the attribute
skipNever(c) == FALSE

\* lines 207, 232-235: false, or the skip_host_verification attribute when set
skipOf(c) == IF ~c.SkipHostVerification.null THEN c.SkipHostVerification.value ELSE FALSE

\* lines 204-266: the certificate material and the diagnostics of reading it
tlsInputsOf(c) ==
    LET caFile == ReadFile(c.CAcertFile.value)
        certFile == ReadFile(c.AuthTLS.CertFile.value)
        keyFile == ReadFile(c.AuthTLS.KeyFile.value)
        readsCert == ~c.AuthTLS.nil /\ ~c.AuthTLS.CertFile.null
        readsKey == ~c.AuthTLS.nil /\ ~c.AuthTLS.KeyFile.null
    IN  [caCert |-> IF ~c.CAcertFile.null THEN caFile.data ELSE c.tlsEnv.ca,
         clientCert |-> IF readsCert THEN certFile.data ELSE c.tlsEnv.cert,
         clientKey |-> IF readsKey THEN keyFile.data ELSE c.tlsEnv.key,
         skipHostVerification |-> skipOf(c),
         diags |->
             (IF ~c.CAcertFile.null /\ caFile.err # NoErr
              THEN <<"Unable to Read CA Certificate File">> ELSE <<>>) \o
             (IF readsCert /\ certFile.err # NoErr
              THEN <<"Unable to Read Client Certificate File">> ELSE <<>>) \o
             (IF readsKey /\ keyFile.err # NoErr
              THEN <<"Unable to Read Client Key File">> ELSE <<>>)]

\* the client NewClusterConfigWithDns returned with an error is the zero
\* Cluster: its *gocql.ClusterConfig is nil
clientIsZero == pc = "failed"

\* lines 119-154: the configuration is read and the host is checked
ConfigureStart(c) ==
    /\ ppc = "idle"
    /\ pc = "new"
    /\ conf' = c
    /\ IF c.getErr
       THEN /\ diags' = <<"Invalid Configuration">>
            /\ ppc' = "done"
       ELSE IF hostOf(c) = ""
       THEN /\ diags' = <<"Missing ScyllaDB Host">>
            /\ ppc' = "done"
       ELSE /\ diags' = <<>>
            /\ ppc' = "cluster"
    /\ UNCHANGED <<dial, aclVars, handleRet, tunnelVars, hostVars, tlsVars, dnsVars, calls, Authenticator, Session, resp>>

\* lines 158-171: the cluster configuration is created; an error is recorded
\* and Configure goes on
ConfigureCluster ==
    /\ ppc = "cluster"
    /\ cluster' = NewClusterConfigWithDnsOf(env)
    /\ hostDialer' = hostDialerOf(env)
    /\ resolver' = resolverOf(resolver, env, dnsAddressOf(conf))
    /\ pc' = IF proxyRejected(env) THEN "failed" ELSE "ready"
    /\ calls' = Append(calls, "NewClusterConfigWithDns")
    /\ diags' = IF proxyRejected(env)
                THEN Append(diags, "Unable to Create a Cluster Configuration")
                ELSE diags
    /\ ppc' = "keyspace"
    /\ UNCHANGED <<dial, aclVars, handleRet, tunnelCallVars, hostCallVars, tlsVars, lookups, conf, Authenticator,
                   Session, resp>>

\* lines 173-178 and Cluster.SetSystemAuthKeyspace
ConfigureKeyspace ==
    /\ ppc = "keyspace"
    /\ cluster' = [cluster EXCEPT !.SystemAuthKeyspaceName =
                       IF ~conf.SystemAuthKeyspace.null THEN conf.SystemAuthKeyspace.value
                       ELSE "system_auth"]
    /\ calls' = Append(calls, "SetSystemAuthKeyspace")
    /\ ppc' = "auth"
    /\ UNCHANGED <<dial, aclVars, handleRet, tunnelCallVars, pc, hostVars, tlsVars, dnsVars, conf, diags,
                   Authenticator, Session, resp>>

\* lines 180-199 and Cluster.SetUserPasswordAuth, which assigns through the
\* *gocql.ClusterConfig of the client
ConfigureAuth ==
    /\ ppc = "auth"
    /\ IF conf.AuthLoginUserPass.nil
       THEN /\ ppc' = "tls"
            /\ UNCHANGED <<diags, calls, Authenticator>>
       ELSE /\ diags' = IF passwordOf(conf) = ""
                        THEN Append(diags, "Missing ScyllaDB Password")
                        ELSE diags
            /\ calls' = Append(calls, "SetUserPasswordAuth")
            /\ IF clientIsZero
               THEN /\ ppc' = "panic"
                    /\ UNCHANGED Authenticator
               ELSE /\ ppc' = "tls"
                    /\ Authenticator' =
                           [set |-> TRUE,
                            Username |-> conf.AuthLoginUserPass.Username.value,
                            Password |-> passwordOf(conf)]
    /\ UNCHANGED <<dial, aclVars, handleRet, tunnelVars, hostVars, tlsVars, dnsVars, conf, Session, resp>>

\* lines 201-279 and Cluster.SetTLS, which assigns SslOpts through the
\* *gocql.ClusterConfig of the client once the certificates are accepted
ConfigureTLS ==
    /\ ppc = "tls"
    /\ LET in == tlsInputsOf(conf)
           r == SetTLSOf(SslOpts, in.caCert, in.clientCert, in.clientKey,
                         ~in.skipHostVerification)
       IN  IF Len(in.caCert) > 0 \/ Len(in.clientCert) > 0 \/ Len(in.clientKey) > 0
           THEN /\ calls' = Append(calls, "SetTLS")
                /\ tlsArgs' = [called |-> TRUE, caCert |-> in.caCert,
                               clientCert |-> in.clientCert, clientKey |-> in.clientKey,
                               enableHostVerification |-> ~in.skipHostVerification]
                /\ IF r.err = NoErr /\ clientIsZero
                   THEN /\ ppc' = "panic"
                        /\ diags' = diags \o in.diags
                        /\ UNCHANGED <<SslOpts, tlsRet, hostDialer, handleRet>>
                   ELSE /\ ppc' = "check"
                        /\ SslOpts' = r.SslOpts
                        /\ tlsRet' = [called |-> TRUE, err |-> r.err]
                        /\ hostDialer' = hostDialerWithTLS(hostDialer, r)
                        /\ handleRet' = Append(handleRet, [op |-> "SetTLS", err |-> r.err])
                        /\ diags' = diags \o in.diags \o
                               (IF r.err # NoErr
                                THEN <<"Unable to Configure TLS for ScyllaDB Client">>
                                ELSE <<>>)
           ELSE /\ ppc' = "check"
                /\ diags' = diags \o in.diags
                /\ UNCHANGED <<calls, tlsArgs, SslOpts, tlsRet, hostDialer, handleRet>>
    /\ UNCHANGED <<dial, aclVars, tunnelVars, hostCallVars, handed, certsGiven, dnsVars, conf,
                   Authenticator, Session, resp>>

\* lines 281-285: Configure returns when a diagnostic was added, else it
\* calls CreateSession
ConfigureCheck ==
    /\ ppc = "check"
    /\ IF hasError(diags)
       THEN /\ ppc' = "done"
            /\ UNCHANGED calls
       ELSE /\ ppc' = "session"
            /\ calls' = Append(calls, "CreateSession")
    /\ UNCHANGED <<dial, aclVars, handleRet, tunnelVars, hostVars, tlsVars, dnsVars, conf, diags, Authenticator,
                   Session, resp>>

\* Cluster.CreateSession succeeds (session.go 101-108); lines 296-301: the
\* client is made available to the data sources and the resources
CreateSessionOK ==
    /\ ppc = "session"
    /\ Session' = "open"
    /\ resp' = [DataSourceData |-> "client", ResourceData |-> "client"]
    /\ handleRet' = Append(handleRet, [op |-> "CreateSession", err |-> NoErr])
    /\ ppc' = "done"
    /\ UNCHANGED <<dial, aclVars, tunnelVars, hostVars, tlsVars, dnsVars, conf, diags, calls, Authenticator>>

\* Cluster.CreateSession fails; lines 286-294
CreateSessionFail ==
    /\ ppc = "session"
    /\ diags' = Append(diags, "Unable to Create ScyllaDB Client")
    /\ handleRet' = Append(handleRet, [op |-> "CreateSession", err |-> ErrNoConnections])
    /\ ppc' = "done"
    /\ UNCHANGED <<dial, aclVars, tunnelVars, hostVars, tlsVars, dnsVars, conf, calls, Authenticator,
                   Session, resp>>

\* a hostname of the cluster is looked up, while the session is created or
\* while it is in use: the lookup goes where net.DefaultResolver sends it
LookupHost ==
    /\ ppc = "session" \/ (ppc = "done" /\ Session = "open")
    /\ Len(lookups) < MaxLookups
    /\ lookups' = Append(lookups, lookupTarget(resolver))
    /\ UNCHANGED <<dial, aclVars, handleRet, tunnelVars, hostVars, tlsVars, resolver, provVars>>

(***************************************************************************)
(* Concurrent calls of ProxyDialer.DialContext.  The client library calls  *)
(* the one dialer of the cluster from several goroutines; each call works  *)
(* on its arguments and on the locals ctx, d, proxyConn, connectReq, br    *)
(* and resp, and reads p.ProxyURL.                                         *)
(***************************************************************************)
\* callReader that hands every call the reader of the first call
callReaderShared(d, i) == d[1]

\* line 62 and line 77: the bufio.Reader of call i is made in the call, over
\* the call's own socket, and the BufferedConn returned wraps that reader
callReader(d, i) == d[i]

\* line 50: p.ProxyURL.Host is read, nothing of p is written
CallStart(i, a) ==
    /\ pc = "ready"
    /\ cluster.Dialer # NoDialer
    /\ ~cluster.Dialer.ProxyURL.nil
    /\ dial[i].pc = "idle"
    /\ dial' = [dial EXCEPT ![i] = [@ EXCEPT !.pc = "dial", !.addr = a,
                                             !.target = cluster.Dialer.ProxyURL.Host]]
    /\ UNCHANGED <<tunnelVars, hostVars, tlsVars, dnsVars, provVars, aclVars, handleRet>>

\* line 50: the call's connection to the proxy is made
CallConnectOK(i) ==
    /\ dial[i].pc = "dial"
    /\ dial' = [dial EXCEPT ![i] = [@ EXCEPT !.pc = "write", !.sock = "open"]]
    /\ UNCHANGED <<tunnelVars, hostVars, tlsVars, dnsVars, provVars, aclVars, handleRet>>

\* lines 50-53
CallConnectFail(i) ==
    /\ dial[i].pc = "dial"
    /\ LET o == connectFailed("connection refused")
       IN  dial' = [dial EXCEPT ![i] = [@ EXCEPT !.pc = "done", !.sock = o.sock,
                                                 !.result = [conn |-> o.conn, err |-> o.err]]]
    /\ UNCHANGED <<tunnelVars, hostVars, tlsVars, dnsVars, provVars, aclVars, handleRet>>

\* lines 55-56: the request for the call's addr goes out on the call's socket
CallWriteOK(i) ==
    /\ dial[i].pc = "write"
    /\ dial' = [dial EXCEPT ![i] = [@ EXCEPT !.pc = "read",
                                             !.sent = <<connectRequest(dial[i].addr)>>]]
    /\ UNCHANGED <<tunnelVars, hostVars, tlsVars, dnsVars, provVars, aclVars, handleRet>>

\* lines 55-59
CallWriteFail(i) ==
    /\ dial[i].pc = "write"
    /\ LET o == writeFailed("broken pipe")
       IN  dial' = [dial EXCEPT ![i] = [@ EXCEPT !.pc = "done", !.sock = o.sock,
                                                 !.sent = <<connectRequest(dial[i].addr)>>,
                                                 !.result = [conn |-> o.conn, err |-> o.err]]]
    /\ UNCHANGED <<tunnelVars, hostVars, tlsVars, dnsVars, provVars, aclVars, handleRet>>

\* the proxy answers on the connection of call i: the header and the first
\* k tunnel bytes arrive together
CallProxyReply(i, r, pl, k) ==
    /\ dial[i].pc = "read"
    /\ dial[i].reply = NoReply
    /\ k \in 0..Len(pl)
    /\ pl # <<>> => (r.wellFormed /\ r.statusText[1] = "200")
    /\ dial' = [dial EXCEPT ![i] = [@ EXCEPT !.reply = r, !.payload = pl,
                                             !.inbox = Take(pl, k), !.pending = Drop(pl, k)]]
    /\ UNCHANGED <<tunnelVars, hostVars, tlsVars, dnsVars, provVars, aclVars, handleRet>>

\* the rest of the tunnel bytes arrives at the socket of call i
CallProxyDeliver(i) ==
    /\ dial[i].sock = "open"
    /\ dial[i].pending # <<>>
    /\ dial' = [dial EXCEPT ![i] = [@ EXCEPT !.inbox = @ \o dial[i].pending,
                                             !.pending = <<>>]]
    /\ UNCHANGED <<tunnelVars, hostVars, tlsVars, dnsVars, provVars, aclVars, handleRet>>

\* lines 62-79: the call's bufio.Reader takes the header and the received
\* tunnel bytes it has room for, ReadResponse parses the header, and the
\* call returns
CallReadReply(i) ==
    /\ dial[i].pc = "read"
    /\ dial[i].reply # NoReply
    /\ LET n == Min(BufSize, Len(dial[i].inbox))
           o == afterResponse(ReadResponse(dial[i].reply), n)
       IN  dial' = [dial EXCEPT ![i] =
                       [@ EXCEPT !.pc = "done", !.sock = o.sock,
                                 !.br = Take(dial[i].inbox, n),
                                 !.inbox = Drop(dial[i].inbox, n),
                                 !.result = [conn |-> o.conn, err |-> o.err]]]
    /\ UNCHANGED <<tunnelVars, hostVars, tlsVars, dnsVars, provVars, aclVars, handleRet>>

\* Read with a buffer of n bytes on a connection whose reader and socket are
\* those of c: [got, br, inbox].  A BufferedConn reads from the bufio.Reader,
\* which reads the socket when it is empty (into the caller's buffer when
\* that is at least BufSize long); a net.Conn reads the socket
readConn(conn, c, n) ==
    IF conn = "BufferedConn" /\ c.br # <<>>
    THEN [got |-> Take(c.br, Min(n, Len(c.br))), br |-> Drop(c.br, Min(n, Len(c.br))),
          inbox |-> c.inbox]
    ELSE IF conn = "BufferedConn" /\ n < BufSize
    THEN LET fill == Take(c.inbox, Min(BufSize, Len(c.inbox)))
         IN  [got |-> Take(fill, Min(n, Len(fill))), br |-> Drop(fill, Min(n, Len(fill))),
              inbox |-> Drop(c.inbox, Len(fill))]
    ELSE [got |-> Take(c.inbox, Min(n, Len(c.inbox))), br |-> c.br,
          inbox |-> Drop(c.inbox, Min(n, Len(c.inbox)))]

\* the caller of call i reads from the connection the call returned
CallConnRead(i, n) ==
    /\ dial[i].pc = "done"
    /\ dial[i].result.conn # "none"
    /\ LET r == readConn(dial[i].result.conn, callReader(dial, i), n)
       IN  /\ r.got # <<>>
           /\ dial' = [dial EXCEPT ![i] = [@ EXCEPT !.out = @ \o r.got, !.br = r.br,
                                                    !.inbox = r.inbox]]
    /\ UNCHANGED <<tunnelVars, hostVars, tlsVars, dnsVars, provVars, aclVars, handleRet>>

(***************************************************************************)
(* The role functions of the Cluster, on an open session                   *)
(***************************************************************************)
\* Cluster.SetSystemAuthKeyspace, called on the cluster configuration
SetSystemAuthKeyspace(name) ==
    /\ pc = "ready"
    /\ ppc = "idle"
    /\ Session = "nil"
    /\ cluster.SystemAuthKeyspaceName # name
    /\ cluster' = [cluster EXCEPT !.SystemAuthKeyspaceName = name]
    /\ UNCHANGED <<tunnelCallVars, pc, hostVars, tlsVars, dnsVars, provVars, dial, aclVars, handleRet>>

\* CreateSessionOf that assigns the session it got back whatever the error
CreateSessionOfAssignsAnyway(before, ok) ==
    [err |-> IF ok THEN NoErr ELSE ErrNoConnections,
     Session |-> IF ok THEN "open" ELSE "nil"]

\* Cluster.CreateSession on a handle whose Session field is before; ok tells
\* whether the client library opened a session: [err, Session]
CreateSessionOf(before, ok) ==
    IF ~ok THEN [err |-> ErrNoConnections, Session |-> before]
    ELSE [err |-> NoErr, Session |-> "open"]

\* Cluster.CreateSession, called on the cluster configuration
CreateSession(ok) ==
    /\ pc = "ready"
    /\ ppc = "idle"
    /\ Len(handleRet) < MaxHandleOps
    /\ Session' = CreateSessionOf(Session, ok).Session
    /\ handleRet' = Append(handleRet, [op |-> "CreateSession",
                                       err |-> CreateSessionOf(Session, ok).err])
    /\ UNCHANGED <<tunnelVars, hostVars, tlsVars, dnsVars, conf, ppc, diags, calls,
                   Authenticator, resp, dial, aclVars>>

\* a role function ran the statement stmt for the role r
RoleExec(op, r, stmt) ==
    LET x == ExecRole(roles, stmt)
    IN  /\ roles' = x.db
        /\ roleRet' = [op |-> op, name |-> r.Role, role |-> ZeroRole, err |-> x.err,
                        stmt |-> stmt]
        /\ roleOps' = IF x.err = NoErr THEN Append(roleOps, [op |-> op, role |-> r])
                      ELSE roleOps

CreateRole(r) ==
    /\ Session = "open"
    /\ Len(roleOps) < MaxRoleOps
    /\ IF validateRoleName(r.Role) # NoErr
       THEN /\ roleRet' = [op |-> "CreateRole", name |-> r.Role, role |-> ZeroRole,
                           err |-> validateRoleName(r.Role), stmt |-> <<>>]
            /\ UNCHANGED <<roles, roleOps>>
       ELSE RoleExec("CreateRole", r, createRoleQuery(r))
    /\ UNCHANGED <<tunnelVars, hostVars, tlsVars, dnsVars, provVars, dial, handleRet, grantVars, tf>>

UpdateRole(r) ==
    /\ Session = "open"
    /\ Len(roleOps) < MaxRoleOps
    /\ RoleExec("UpdateRole", r, updateRoleQuery(r))
    /\ UNCHANGED <<tunnelVars, hostVars, tlsVars, dnsVars, provVars, dial, handleRet, grantVars, tf>>

DeleteRole(r) ==
    /\ Session = "open"
    /\ Len(roleOps) < MaxRoleOps
    /\ RoleExec("DeleteRole", r, deleteRoleQuery(r))
    /\ UNCHANGED <<tunnelVars, hostVars, tlsVars, dnsVars, provVars, dial, handleRet, grantVars, tf>>

GetRole(roleName) ==
    /\ Session = "open"
    /\ LET x == QueryRole(roles, getRoleQuery(cluster.SystemAuthKeyspaceName), roleName)
       IN  roleRet' = [op |-> "GetRole", name |-> roleName, role |-> x.role, err |-> x.err,
                       stmt |-> getRoleQuery(cluster.SystemAuthKeyspaceName)]
    /\ UNCHANGED <<tunnelVars, hostVars, tlsVars, dnsVars, provVars, dial, handleRet, roles, roleOps, grantVars, tf>>

(***************************************************************************)
(* The grant functions of the Cluster, on an open session                  *)
(***************************************************************************)
\* the frame of the grant functions
grantFrame ==
    UNCHANGED <<tunnelVars, hostVars, tlsVars, dnsVars, provVars, dial, handleRet, roleVars, tf>>

\* the last two writes, with the write w added
pushWrite(ws, w) == IF Len(ws) < 2 THEN Append(ws, w) ELSE <<ws[2], w>>

\* Cluster.CreateGrant
CreateGrant(grant) ==
    /\ Session = "open"
    /\ grantRet.n < MaxGrantOps
    /\ LET x == ExecGrant(grants, DOMAIN roles, createGrantTemplate(grant))
       IN  /\ grants' = x.db
           /\ grantRet' = [NoGrantRet EXCEPT !.n = grantRet.n + 1, !.op = "CreateGrant",
                               !.grant = grant, !.err = x.err,
                               !.stmts = <<createGrantTemplate(grant)>>,
                               !.answers = <<x.err>>, !.before = grants]
           /\ writes' = IF x.err = NoErr
                        THEN pushWrite(writes, [op |-> "CreateGrant", grant |-> grant,
                                                before |-> grants])
                        ELSE writes
    /\ grantFrame

\* Cluster.DeleteGrant
DeleteGrant(grant) ==
    /\ Session = "open"
    /\ grantRet.n < MaxGrantOps
    /\ LET x == ExecGrant(grants, DOMAIN roles, deleteGrantTemplate(grant))
       IN  /\ grants' = x.db
           /\ grantRet' = [NoGrantRet EXCEPT !.n = grantRet.n + 1, !.op = "DeleteGrant",
                               !.grant = grant, !.err = x.err,
                               !.stmts = <<deleteGrantTemplate(grant)>>,
                               !.answers = <<x.err>>, !.before = grants]
           /\ writes' = IF x.err = NoErr
                        THEN pushWrite(writes, [op |-> "DeleteGrant", grant |-> grant,
                                                before |-> grants])
                        ELSE writes
    /\ grantFrame

\* lines 317-329: the rows the iterator scans; the error the iterator holds
\* is not looked at, and nil is returned
getGrantErr(x) == NoErr

\* Cluster.GetGrant
GetGrant(grant) ==
    /\ Session = "open"
    /\ grantRet.n < MaxGrantOps
    /\ LET x == ExecGrant(grants, DOMAIN roles, readGrantTemplate(grant))
       IN  grantRet' = [NoGrantRet EXCEPT !.n = grantRet.n + 1, !.op = "GetGrant",
                            !.grant = grant, !.permissions = x.rows,
                            !.found = (x.rows # <<>>), !.err = getGrantErr(x),
                            !.stmts = <<readGrantTemplate(grant)>>,
                            !.answers = <<x.err>>, !.before = grants]
    /\ UNCHANGED <<grants, writes>>
    /\ grantFrame

\* Cluster.UpdateGrant: DeleteGrant(fromGrant), then CreateGrant(toGrant)
\* unless the delete failed
UpdateGrant(fromGrant, toGrant) ==
    /\ Session = "open"
    /\ grantRet.n < MaxGrantOps
    /\ LET d == ExecGrant(grants, DOMAIN roles, deleteGrantTemplate(fromGrant))
           c == ExecGrant(d.db, DOMAIN roles, createGrantTemplate(toGrant))
           ret(err, stmts, answers) ==
               [NoGrantRet EXCEPT !.n = grantRet.n + 1, !.op = "UpdateGrant",
                    !.grant = fromGrant, !.to = toGrant, !.err = err, !.stmts = stmts,
                    !.answers = answers, !.before = grants]
       IN  IF d.err # NoErr
           THEN /\ grantRet' = ret(d.err, <<deleteGrantTemplate(fromGrant)>>, <<d.err>>)
                /\ UNCHANGED <<grants, writes>>
           ELSE /\ grants' = c.db
                /\ grantRet' = ret(c.err, <<deleteGrantTemplate(fromGrant),
                                            createGrantTemplate(toGrant)>>, <<d.err, c.err>>)
                /\ writes' = pushWrite(writes, [op |-> "UpdateGrant", grant |-> toGrant,
                                                before |-> grants])
    /\ grantFrame

\* Cluster.GetPermissionStrs
GetPermissionStrs(grant) ==
    /\ Session = "open"
    /\ grantRet.n < MaxGrantOps
    /\ LET resourceName == getResourceName(grant)
           x == QueryPermissions(grants, cluster.SystemAuthKeyspaceName, grant.RoleName,
                                 resourceName)
           ret == [NoGrantRet EXCEPT !.n = grantRet.n + 1, !.op = "GetPermissionStrs",
                       !.grant = grant, !.resourceName = resourceName, !.before = grants]
       IN  IF resourceName = <<>>
           THEN grantRet' = ret
           ELSE grantRet' = [ret EXCEPT !.permissions = x.permissions, !.err = x.err,
                                 !.answers = <<x.err>>,
                                 !.stmts = <<<<"SELECT permissions FROM ",
                                               cluster.SystemAuthKeyspaceName,
                                               ".role_permissions WHERE role = ? AND resource = ? LIMIT 1">>>>]
    /\ UNCHANGED <<grants, writes>>
    /\ grantFrame

(***************************************************************************)
(* The methods of the grant resource and of the role resource.  What the   *)
(* Cluster functions they call return is kept in the response tf.resp.     *)
(***************************************************************************)
\* the frame of the resource methods
resourceFrame ==
    UNCHANGED <<tunnelVars, hostVars, tlsVars, dnsVars, provVars, dial, handleRet,
                roleOps, roleRet, grantRet, writes>>

\* time.Now().Format(time.RFC850): the time of a call is its number
Now == ToString(tf.n + 1)

\* the response of a method of the resource res
Resp(res, op, req, x) ==
    [NoResp EXCEPT !.res = res, !.op = op, !.req = req, !.grants = grants,
                   !.Diagnostics = x.Diagnostics, !.State = x.State]

\* grantResource.Create: Terraform keeps the state the method set
grantResource_Create(plan) ==
    /\ Session = "open"
    /\ tf.n < MaxResourceOps
    /\ LET x == grantCreateOf(plan, grants, DOMAIN roles, cluster.SystemAuthKeyspaceName,
                              Now)
       IN  /\ grants' = x.db
           /\ tf' = [tf EXCEPT !.n = @ + 1,
                               !.grantState = IF x.Diagnostics = <<>> THEN x.State ELSE @,
                               !.grantDb = IF x.Diagnostics = <<>> THEN x.db ELSE @,
                               !.resp = Resp("grant", "Create", [NoReq EXCEPT !.Plan = plan], x)]
    /\ UNCHANGED roles
    /\ resourceFrame

\* grantResource.Read: the method has no statement, and the response keeps
\* the state of the request
grantResource_Read ==
    /\ Session = "open"
    /\ tf.n < MaxResourceOps
    /\ tf.grantState # RawNull
    /\ tf' = [tf EXCEPT !.n = @ + 1,
                        !.resp = Resp("grant", "Read",
                                      [NoReq EXCEPT !.State = tf.grantState],
                                      [Diagnostics |-> <<>>, State |-> tf.grantState])]
    /\ UNCHANGED <<roles, grants>>
    /\ resourceFrame

\* grantResource.ImportState of the id ID; the imported state is kept in the
\* response
grantResource_ImportState(ID) ==
    /\ Session = "open"
    /\ tf.n < MaxResourceOps
    /\ tf' = [tf EXCEPT !.n = @ + 1,
                        !.resp = Resp("grant", "ImportState", [NoReq EXCEPT !.ID = ID],
                                      grantImportStateOf(ID, grants,
                                                         cluster.SystemAuthKeyspaceName))]
    /\ UNCHANGED <<roles, grants>>
    /\ resourceFrame

\* grantResource.ModifyPlan on the state State and the proposed plan Plan
grantResource_ModifyPlan(State, Plan) ==
    /\ Session = "open"
    /\ tf.n < MaxResourceOps
    /\ LET x == grantModifyPlanOf(State, Plan, grants, cluster.SystemAuthKeyspaceName)
       IN  tf' = [tf EXCEPT !.n = @ + 1,
                            !.resp = [NoResp EXCEPT !.res = "grant", !.op = "ModifyPlan",
                                          !.req = [NoReq EXCEPT !.State = State,
                                                                !.Plan = Plan],
                                          !.grants = grants,
                                          !.Diagnostics = x.Diagnostics,
                                          !.State = State, !.Plan = x.Plan,
                                          !.RequiresReplace = x.RequiresReplace]]
    /\ UNCHANGED <<roles, grants>>
    /\ resourceFrame

\* roleResource.Create
roleResource_Create(plan) ==
    /\ Session = "open"
    /\ tf.n < MaxResourceOps
    /\ LET x == roleCreateOf(plan, roles, Now)
       IN  /\ roles' = x.db
           /\ tf' = [tf EXCEPT !.n = @ + 1,
                               !.roleState = IF x.Diagnostics = <<>> THEN x.State ELSE @,
                               !.rolePlanned = IF x.Diagnostics = <<>> THEN x.State ELSE @,
                               !.plannedBy = IF x.Diagnostics = <<>> THEN "Create" ELSE @,
                               !.roleDb = IF x.Diagnostics = <<>> THEN x.db ELSE @,
                               !.resp = Resp("role", "Create", [NoReq EXCEPT !.Plan = plan], x)]
    /\ UNCHANGED grants
    /\ resourceFrame

\* roleResource.Update of the resource in state to the plan
roleResource_Update(plan) ==
    /\ Session = "open"
    /\ tf.n < MaxResourceOps
    /\ tf.roleState # RawNull
    /\ LET x == roleUpdateOf(tf.roleState, plan, roles, Now)
       IN  /\ roles' = x.db
           /\ tf' = [tf EXCEPT !.n = @ + 1,
                               !.roleState = x.State,
                               !.rolePlanned = IF x.Diagnostics = <<>> THEN x.State ELSE @,
                               !.plannedBy = IF x.Diagnostics = <<>> THEN "Update" ELSE @,
                               !.roleDb = IF x.Diagnostics = <<>> THEN x.db ELSE @,
                               !.resp = Resp("role", "Update",
                                             [NoReq EXCEPT !.State = tf.roleState,
                                                           !.Plan = plan], x)]
    /\ UNCHANGED grants
    /\ resourceFrame

\* roleResource.Read refreshes the state Terraform holds
roleResource_Read ==
    /\ Session = "open"
    /\ tf.n < MaxResourceOps
    /\ tf.roleState # RawNull
    /\ LET x == roleReadOf(tf.roleState, roles, cluster.SystemAuthKeyspaceName, Now)
       IN  tf' = [tf EXCEPT !.n = @ + 1,
                            !.roleState = x.State,
                            !.resp = Resp("role", "Read",
                                          [NoReq EXCEPT !.State = tf.roleState], x)]
    /\ UNCHANGED <<roles, grants>>
    /\ resourceFrame

\* roleResource.ImportState: Terraform holds the imported state
roleResource_ImportState(ID) ==
    /\ Session = "open"
    /\ tf.n < MaxResourceOps
    /\ tf' = [tf EXCEPT !.n = @ + 1,
                        !.roleState = roleImportStateOf(ID),
                        !.resp = Resp("role", "ImportState", [NoReq EXCEPT !.ID = <<ID>>],
                                      [Diagnostics |-> <<>>,
                                       State |-> roleImportStateOf(ID)])]
    /\ UNCHANGED <<roles, grants>>
    /\ resourceFrame

Next ==
    \/ NewClusterConfig
    \/ \E a \in Addrs, d \in BOOLEAN : DialContextStart(a, d)
    \/ CtxDone
    \/ ConnectOK
    \/ ConnectFail
    \/ WriteOK
    \/ WriteFail
    \/ \E r \in Replies, pl \in Payloads : \E k \in 0..Len(pl) : ProxyReply(r, pl, k)
    \/ \E n \in 1..MaxPayload : ProxyDeliver(n)
    \/ ProxyClose
    \/ ReadEOF
    \/ ReadReply
    \/ \E n \in 1..MaxRead : ConnRead(n)

Spec == Init /\ [][Next]_vars

\* NewClusterConfig and the start of a dial, up to the TCP connection to the proxy
ConfigNext ==
    \/ NewClusterConfig
    \/ \E a \in Addrs, d \in BOOLEAN : DialContextStart(a, d)
    \/ CtxDone
    \/ ConnectOK
    \/ ConnectFail

ConfigSpec == ConfigInit /\ [][ConfigNext]_vars

\* DialContext runs on the caller's goroutine: a step of it that can be taken is
\* taken.  net.Dialer.DialContext returns (the context has a deadline), and the
\* write of the short request returns; the read returns once a reply or the
\* end of the connection has arrived.  Nothing obliges the proxy to act.
FairSpec ==
    /\ Spec
    /\ WF_vars(ConnectOK \/ ConnectFail)
    /\ WF_vars(WriteOK \/ WriteFail)
    /\ WF_vars(ReadEOF \/ ReadReply)

(***************************************************************************)
(* Properties                                                              *)
(***************************************************************************)
Returned == pc = "done"
Connected == Returned /\ result.conn # "none"
Failed == Returned /\ result.err # NoErr

\* the reply is an HTTP response whose status code is 200
Is200(r) == r.wellFormed /\ r.statusText # <<>> /\ r.statusText[1] = "200"

\* strings.Contains on token sequences
Contains(text, sub) ==
    \E i \in 1..(Len(text) - Len(sub) + 1) : SubSeq(text, i, i + Len(sub) - 1) = sub

\* C1: DialContext returns a connection exactly when the proxy's reply is an
\* HTTP response with status 200; for a reply with another status it returns
\* no connection and an error whose text contains the status text as sent.
C1_ConnectionIffStatus200 ==
    Returned =>
        /\ (result.conn # "none") <=> (reply # NoReply /\ Is200(reply))
        /\ (result.conn # "none") <=> (result.err = NoErr)
        /\ (reply.wellFormed /\ ~Is200(reply)) =>
               /\ result.err # NoErr
               /\ Contains(result.err.text, reply.statusText)

\* a call refused with 502 (sent after two spaces) returned the status text
C1_Witness ==
    /\ Returned
    /\ reply.wellFormed
    /\ reply.statusText = <<"502", " ", "Bad", " ", "Gateway">>
    /\ result.conn = "none"
    /\ Contains(result.err.text, reply.statusText)

\* C2: a call that returned an error has left no socket open: the socket to
\* the proxy was never opened, or it is closed.
C2_NoSocketLeftOpenOnError ==
    Failed => sock # "open"

\* a refused call returned after the context was done, with the socket closed
C2_Witness ==
    /\ Failed
    /\ cause = "refused"
    /\ ctx.done
    /\ sock = "closed"

\* what the returned connection has yet to yield, in the order its Read
\* yields it: the bufio.Reader's bytes (through a BufferedConn only), the
\* bytes in the socket, the bytes still to arrive
Unread ==
    (IF result.conn = "BufferedConn" THEN br ELSE <<>>) \o inbox \o pending

\* C3: the Reads on the returned connection yield the bytes the proxy sent
\* after the blank line, in order, each once: what has been read followed by
\* what is yet to be read is the payload, however it was split.
C3_ReadsYieldPayload ==
    Connected => out \o Unread = payload

\* of a payload of two different bytes the first was buffered with the header
\* and has been read through the BufferedConn; the second waits in the socket
C3_Witness ==
    /\ Connected
    /\ result.conn = "BufferedConn"
    /\ Len(payload) = 2
    /\ payload[1] # payload[2]
    /\ out = <<payload[1]>>
    /\ br = <<>>
    /\ inbox = <<payload[2]>>

\* C4: a call made with a context that has no deadline eventually returns.
C4_EveryCallReturns ==
    (pc = "dial" /\ ~ctx.hasDeadline) ~> Returned

\* the order of the variables in the claim
EnvOrder == <<"HTTPS_PROXY", "HTTP_PROXY", "https_proxy", "http_proxy">>

\* the first non-empty value among the four variables
FirstOfFour == cmpOr([i \in 1..4 |-> env[EnvOrder[i]]])

\* C5: the proxy address is the first non-empty of HTTPS_PROXY, HTTP_PROXY,
\* https_proxy, http_proxy (no explicit override is passed to
\* NewClusterConfig); a dialer is installed exactly when it is non-empty, and
\* the dialer's target is derived from that address.
C5_ProxyFromFourVariables ==
    pc # "new" =>
        /\ (cluster.Dialer # NoDialer) <=> (FirstOfFour # <<>>)
        /\ FirstOfFour # <<>> =>
               /\ cluster.Dialer # NoDialer
               /\ cluster.Dialer.ProxyURL = urlParse(withScheme(FirstOfFour))

AcceptedPrefixes == {<<>>, HttpPrefix, HttpsPrefix, Socks5Prefix}
HostPorts == {HostPort1, HostPort2}

\* C6: each accepted form of the address host:port (bare, http://, https://,
\* socks5://) gives a target with that host and port, and the dialer opens
\* its TCP connection to host:port.  (The claim's clause on the scheme of the
\* target is not needed to refute it and is left out.)
C6_AcceptedFormsKeepHostPort ==
    \A prefix \in AcceptedPrefixes, hp \in HostPorts :
        (pc # "new" /\ proxyStrOf(env) = prefix \o hp) =>
            /\ cluster.Dialer # NoDialer
            /\ ~cluster.Dialer.ProxyURL.nil
            /\ cluster.Dialer.ProxyURL.Host = hp
            /\ pc # "ready" => dialTarget = hp

C8_MalformedProxyUsedVerbatim ==
    (/\ proxyStrOf(env) # <<>>
     /\ urlParse(withScheme(proxyStrOf(env))) = NilURL
     /\ pc \notin {"new", "ready"}) =>
        /\ pc # "panic"
        /\ dialTarget = proxyStrOf(env)

\* the bytes of the CONNECT request for the destination a
RequestBytes(a) == <<"CONNECT ", a, " HTTP/1.1\r\nHost: ", a, "\r\n\r\n">>

\* C9: on the socket to the proxy DialContext makes one Write, of the CONNECT
\* request naming addr in the request line and in the Host header, before any
\* Read, and no other Write.
C9_OneConnectRequestBeforeRead ==
    /\ \A i \in 1..Len(ioLog) :
           /\ ioLog[i].op = "Write" => (i = 1 /\ ioLog[i].data = RequestBytes(addr))
           /\ ioLog[i].op = "Read" => i > 1
    /\ (pc = "read" \/ (Returned /\ sock # "none")) =>
           (ioLog # <<>> /\ ioLog[1].op = "Write")
    /\ pc \in {"new", "ready", "dial", "write", "panic"} => ioLog = <<>>

\* a tunnel to 10.0.0.5:9042 was opened with one Write and one Read
C9_Witness ==
    /\ Connected
    /\ addr = "10.0.0.5:9042"
    /\ Len(ioLog) = 2
    /\ ioLog[1] = [op |-> "Write", data |-> RequestBytes("10.0.0.5:9042")]

\* what a caller can tell from the error alone: its type and its message
Classify(e) ==
    IF e.type = "net.OpError" THEN "network"
    ELSE IF e.type = "errors.errorString"
            /\ HasPrefix(e.text, <<"proxy refused connection: ">>)
    THEN "refused"
    ELSE IF e.type = "fmt.wrapError"
            /\ HasPrefix(e.text, <<"failed to read proxy response: ">>)
    THEN IF e.unwrap \in {"http.badStringError", "textproto.ProtocolError"}
         THEN "malformed"
         ELSE "read"
    ELSE "unknown"

\* C10: the error DialContext returns tells the cause: a failure of the
\* network (connect or write), a response with a status other than 200 and a
\* response that is not HTTP give errors a caller tells apart.
C10_ErrorTellsCause ==
    Failed => Classify(result.err) = cause

\* a call failed on a response that is not HTTP and the error says so
C10_Witness ==
    /\ Failed
    /\ cause = "malformed"
    /\ reply.line = <<"garbage">>
    /\ Classify(result.err) = "malformed"

(***************************************************************************)
(* Connections through the dialer of the cluster configuration             *)
(***************************************************************************)
\* the replies of the proxy in the runs that go on to TLS: accepted, refused
SessionReplies == {r \in Replies : r.statusText \in {<<"200", " ", "OK">>, <<"403", " ", "Forbidden">>}
                                   /\ r.wellFormed}

SessionNext ==
    \/ \E dns \in DnsAddresses : NewClusterConfigWithDns(dns)
    \/ \E ca \in CACerts, cert \in ClientCerts, key \in ClientKeys, v \in BOOLEAN :
           ~tlsRet.called /\ SetTLS(ca, cert, key, v)
    \/ \E cs \in CandidateLists : DialHostStart(cs)
    \/ SocksOK
    \/ SocksFail
    \/ \E a \in Addrs : DefaultDialHostDirect(a)
    \/ \E a \in Addrs : DialContextStart(a, TRUE)
    \/ ConnectOK
    \/ ConnectFail
    \/ WriteOK
    \/ \E r \in SessionReplies : ProxyReply(r, <<>>, 0)
    \/ ReadReply
    \/ DefaultDialHostTunnel
    \/ GetClientCertificate

SessionSpec == Init /\ [][SessionNext]_vars

\* the DialHost call returned
HostReturned == hpc = "done"

\* C11: DialHost attempts the candidates in list order, one after the other,
\* each at most once, and none after the first that succeeds; when candidate i
\* succeeds after the candidates before it failed, the call returns a
\* connection bound to candidate i and no error.
C11_FirstReachableCandidateWins ==
    /\ Len(attempts) <= Len(candidates)
    /\ \A k \in 1..Len(attempts) : attempts[k].addr = candidates[k]
    /\ \A k \in 1..(Len(attempts) - 1) : ~attempts[k].ok
    /\ (attempts # <<>> /\ attempts[Len(attempts)].ok) =>
           /\ HostReturned
           /\ hresult.err = NoErr
           /\ hresult.conn # NoConn
           /\ hresult.conn.addr = candidates[Len(attempts)]
    /\ (HostReturned /\ hresult.conn # NoConn) => attempts[Len(attempts)].ok

\* the first connect is refused, the second succeeds: the connection is bound
\* to the second candidate, after one attempt on each
C11_Witness ==
    /\ HostReturned
    /\ candidates = <<[host |-> "10.0.0.5", port |-> "9042"],
                      [host |-> "10.0.0.6", port |-> "9042"]>>
    /\ Len(attempts) = 2
    /\ ~attempts[1].ok
    /\ attempts[2].ok
    /\ hresult.conn.addr = [host |-> "10.0.0.6", port |-> "9042"]

\* every attempt of the call failed
AllFailed == \A k \in 1..Len(attempts) : ~attempts[k].ok

\* C12: when every candidate fails, DialHost returns no connection and one
\* error whose text names every candidate of the list, after one attempt on
\* each candidate and no more.
C12_ExhaustedNamesEveryCandidate ==
    (HostReturned /\ AllFailed) =>
        /\ hresult.conn = NoConn
        /\ hresult.err # NoErr
        /\ \A k \in 1..Len(candidates) :
               Contains(hresult.err.text, JoinHostPort(candidates[k]))
        /\ Len(attempts) = Len(candidates)
        /\ \A k \in 1..Len(candidates) : attempts[k].addr = candidates[k]

\* two candidates, both refused
C12_Witness ==
    /\ HostReturned
    /\ AllFailed
    /\ Len(candidates) = 2
    /\ Len(attempts) = 2
    /\ hresult.err # NoErr

\* a TLS configuration has been set on the cluster
TLSSet == tlsRet.called /\ tlsRet.err = NoErr

ProviderInit == InitIn(ProviderEnvs)

ProviderNext ==
    \/ \E c \in Confs : ConfigureStart(c)
    \/ ConfigureCluster
    \/ ConfigureKeyspace
    \/ ConfigureAuth
    \/ ConfigureTLS
    \/ ConfigureCheck
    \/ CreateSessionOK
    \/ CreateSessionFail
    \/ LookupHost

ProviderSpec == ProviderInit /\ [][ProviderNext]_vars

\* Configure called the function f of package scylladb
Called(f) == \E k \in 1..Len(calls) : calls[k] = f
TimesCalled(f) == Cardinality({k \in 1..Len(calls) : calls[k] = f})

\* a proxy address is set in the environment
ProxyConfigured == \E v \in EnvNames : env[v] # <<>>

\* a nameserver address is set in the provider block
DnsConfigured == ~conf.DnsAddress.null /\ conf.DnsAddress.value # ""

\* the dialer the cluster configuration dials through
ActiveDialer ==
    IF hostDialer # NoDialer THEN "HostDialer"
    ELSE IF cluster.Dialer # NoDialer THEN "ProxyDialer"
    ELSE "none"

\* C14: the DNS override is installed at most once; once the cluster
\* configuration has been created it is installed exactly when a proxy and a
\* nameserver address are configured; it is installed before CreateSession
\* is called, and every lookup made from then on goes to the nameserver's
\* port 53 through the proxy dialer of the configuration (to the system's
\* resolver when there is no override).
C14_DnsOverrideBeforeSession ==
    /\ resolver.installs <= 1
    /\ pc = "new" => resolver.installs = 0
    /\ pc = "ready" => (resolver.installs = 1 <=> (ProxyConfigured /\ DnsConfigured))
    /\ (Called("CreateSession") /\ ProxyConfigured /\ DnsConfigured) =>
           resolver.installs = 1
    /\ \A k \in 1..Len(lookups) :
           IF ProxyConfigured /\ DnsConfigured
           THEN /\ lookups[k].server = <<conf.DnsAddress.value, ":", "53">>
                /\ lookups[k].via = ActiveDialer
                /\ lookups[k].via # "none"
           ELSE lookups[k].server = <<"system">>

\* two lookups through the override of a run with a proxy and a nameserver
C14_Witness ==
    /\ ProxyConfigured
    /\ DnsConfigured
    /\ Session = "open"
    /\ resolver.installs = 1
    /\ Len(lookups) = 2
    /\ lookups[2].server = <<"10.0.0.2", ":", "53">>

\* the skip_host_verification attribute is set to true
SkipRequested == ~conf.SkipHostVerification.null /\ conf.SkipHostVerification.value

\* C15: after a successful SetTLS the InsecureSkipVerify flag of the TLS
\* configuration is the negation of EnableHostVerification in SslOpts, in the
\* options as SetTLS leaves them and in the configuration the connections
\* are upgraded with; in a run of Configure host verification is off exactly
\* when skip_host_verification is true, and on when it is false or unset.
C15_SkipIsNegatedVerification ==
    (ppc # "idle" /\ TLSSet) =>
        /\ SslOpts.Config.InsecureSkipVerify = ~SslOpts.EnableHostVerification
        /\ tlsConfigInUse.InsecureSkipVerify = ~SslOpts.EnableHostVerification
        /\ SslOpts.EnableHostVerification = ~SkipRequested
        /\ tlsConfigInUse.InsecureSkipVerify = SkipRequested

\* a run with skip_host_verification = true whose TLS options are set
C15_Witness ==
    /\ ppc = "done"
    /\ TLSSet
    /\ SkipRequested
    /\ SslOpts.Config.InsecureSkipVerify
    /\ Session = "open"

\* the CA input holds no PEM certificate that parses
NoCACertificate(pem) ==
    \A i \in 1..Len(pem) : pem[i].type # "CERTIFICATE" \/ pem[i].der = ""

\* C16: a SetTLS call whose CA input is empty or holds no PEM certificate
\* that parses returns an error, whatever the client certificate and key
\* are; when SetTLS fails in a run of Configure, CreateSession is not called,
\* no session is open and no client is handed to the data sources and the
\* resources.
C16_BadCAIsFatal ==
    /\ (tlsRet.called /\ NoCACertificate(tlsArgs.caCert)) =>
           /\ tlsRet.err # NoErr
           /\ SslOpts = NoSslOpts
    /\ (ppc # "idle" /\ tlsRet.called /\ tlsRet.err # NoErr) =>
           /\ ~Called("CreateSession")
           /\ Session = "nil"
           /\ resp = [DataSourceData |-> "nil", ResourceData |-> "nil"]
           /\ ppc \in {"check", "done"}

\* Configure returned after SetTLS rejected an empty CA input that came with
\* a client certificate and its key
C16_Witness ==
    /\ ppc = "done"
    /\ tlsRet.called
    /\ tlsArgs.caCert = <<>>
    /\ X509KeyPair(tlsArgs.clientCert, tlsArgs.clientKey).err = NoErr
    /\ tlsRet.err # NoErr
    /\ Session = "nil"

\* the conditions of the run under which Configure records an error before
\* the session: no host, an empty password, a certificate file that cannot
\* be read, a failed SetTLS
EmptyHost == hostOf(conf) = ""
EmptyPassword ==
    /\ ~conf.AuthLoginUserPass.nil
    /\ (IF conf.AuthLoginUserPass.Password.null THEN conf.SCYLLADB_PASSWORD
        ELSE conf.AuthLoginUserPass.Password.value) = ""
UnreadableFile ==
    \/ ~conf.CAcertFile.null /\ conf.CAcertFile.value \notin DOMAIN Files
    \/ /\ ~conf.AuthTLS.nil
       /\ \/ ~conf.AuthTLS.CertFile.null /\ conf.AuthTLS.CertFile.value \notin DOMAIN Files
          \/ ~conf.AuthTLS.KeyFile.null /\ conf.AuthTLS.KeyFile.value \notin DOMAIN Files
SetTLSFailed == tlsRet.called /\ tlsRet.err # NoErr

\* C19: in a run of Configure CreateSession is called at most once; when it
\* is called, the cluster configuration with its dialer was created, the
\* system-auth keyspace was set, the authenticator was set if the block is
\* configured and SetTLS was called if there is certificate material, all
\* before it, and no error was recorded before it; it is not called in a run
\* with an empty host, an empty password, an unreadable certificate file or a
\* failed SetTLS; the client is handed out only when CreateSession succeeded.
C19_SessionAfterSetupWithoutErrors ==
    /\ TimesCalled("CreateSession") <= 1
    /\ Called("CreateSession") =>
           /\ calls[Len(calls)] = "CreateSession"
           /\ Called("NewClusterConfigWithDns")
           /\ pc = "ready"
           /\ Called("SetSystemAuthKeyspace")
           /\ ~conf.AuthLoginUserPass.nil => (Called("SetUserPasswordAuth") /\ Authenticator.set)
           /\ (\E f \in {"caCert", "clientCert", "clientKey"} : tlsInputsOf(conf)[f] # <<>>) =>
                  (Called("SetTLS") /\ TLSSet /\ SslOpts # NoSslOpts)
           /\ \A k \in 1..Len(diags) : diags[k] = "Unable to Create ScyllaDB Client"
    /\ (ppc # "idle" /\ (EmptyHost \/ EmptyPassword \/ UnreadableFile \/ SetTLSFailed)) =>
           ~Called("CreateSession")
    /\ (Session = "open" \/ resp.DataSourceData # "nil" \/ resp.ResourceData # "nil") =>
           /\ Called("CreateSession")
           /\ Session = "open"
           /\ resp = [DataSourceData |-> "client", ResourceData |-> "client"]
           /\ diags = <<>>

\* a run with user and password and mutual TLS that ended with a session
C19_Witness ==
    /\ ppc = "done"
    /\ calls = <<"NewClusterConfigWithDns", "SetSystemAuthKeyspace", "SetUserPasswordAuth",
                 "SetTLS", "CreateSession">>
    /\ resp.ResourceData = "client"
    /\ SslOpts.Config.Certificates # <<>>

\* SetTLS was given a client certificate and a client key
BothGiven == tlsArgs.clientCert # <<>> /\ tlsArgs.clientKey # <<>>

\* the key pair of the arguments: the certificates of the certificate input
\* with the key of the key input
GivenPair ==
    LET certs == SelectSeq(tlsArgs.clientCert, LAMBDA b : b.type = "CERTIFICATE")
        keys == SelectSeq(tlsArgs.clientKey, LAMBDA b : b.type = "PRIVATE KEY")
    IN  [Certificate |-> [i \in 1..Len(certs) |-> certs[i].der],
         PrivateKey |-> keys[1].der]

\* the options carry the given key pair and nothing else, and every call of
\* the callback returned it
CarriesGivenPair ==
    /\ SslOpts # NoSslOpts
    /\ SslOpts.Config.Certificates = <<GivenPair>>
    /\ ~SslOpts.Config.GetClientCertificate.nil
    /\ SslOpts.Config.GetClientCertificate.returns = GivenPair
    /\ \A k \in 1..Len(certsGiven) : certsGiven[k] = GivenPair

\* the options carry no client certificate and no callback
CarriesNoPair ==
    /\ SslOpts # NoSslOpts
    /\ SslOpts.Config.Certificates = <<>>
    /\ SslOpts.Config.GetClientCertificate = NoCallback

\* C17 as stated: with a client certificate and a key SetTLS fails or sets
\* options that carry exactly that pair, returned by every call of the
\* callback; with at most one of the two it succeeds, with no client
\* certificate and no callback.
C17_AsStated ==
    tlsRet.called =>
        /\ BothGiven => (tlsRet.err # NoErr \/ CarriesGivenPair)
        /\ ~BothGiven => (tlsRet.err = NoErr /\ CarriesNoPair)

\* C17: with a client certificate and a key SetTLS fails or sets options that
\* carry exactly that pair, returned by every call of the callback; with at
\* most one of the two it succeeds when the CA input holds a certificate, with
\* no client certificate and no callback, and fails when the CA input holds
\* none.
C17_ClientPairOrNone ==
    tlsRet.called =>
        /\ BothGiven => (tlsRet.err # NoErr \/ CarriesGivenPair)
        /\ (~BothGiven /\ ~NoCACertificate(tlsArgs.caCert)) =>
               (tlsRet.err = NoErr /\ CarriesNoPair)
        /\ (~BothGiven /\ NoCACertificate(tlsArgs.caCert)) => tlsRet.err # NoErr

\* the callback was called twice on a connection set up with a key pair
C17_Witness ==
    /\ TLSSet
    /\ BothGiven
    /\ CarriesGivenPair
    /\ Len(certsGiven) = 2
    /\ certsGiven[1] = [Certificate |-> <<"cert1">>, PrivateKey |-> "key1"]

(***************************************************************************)
(* Concurrent dials through one ProxyDialer                                *)
(***************************************************************************)
ConcurrentInit == InitIn(ConcurrentEnvs)

ConcurrentNext ==
    \/ NewClusterConfig
    \/ \E v \in BOOLEAN : ~tlsRet.called /\ SetTLS(<<PEMCert("ca1", "cakey")>>, <<>>, <<>>, v)
    \/ \E i \in Calls, a \in Addrs : CallStart(i, a)
    \/ \E i \in Calls : CallConnectOK(i)
    \/ \E i \in Calls : CallConnectFail(i)
    \/ \E i \in Calls : CallWriteOK(i)
    \/ \E i \in Calls : CallWriteFail(i)
    \/ \E i \in Calls, r \in ConcurrentReplies, pl \in ConcurrentPayloads :
           \E k \in 0..Len(pl) : CallProxyReply(i, r, pl, k)
    \/ \E i \in Calls : CallProxyDeliver(i)
    \/ \E i \in Calls : CallReadReply(i)
    \/ \E i \in Calls, n \in 1..MaxRead : CallConnRead(i, n)

ConcurrentSpec == ConcurrentInit /\ [][ConcurrentNext]_vars

\* some call has started
Dialing == \E i \in Calls : dial[i].pc # "idle"

\* what call i did and got follows from its own arguments and its own
\* exchange with the proxy
OwnExchange(i) ==
    LET c == dial[i]
    IN  /\ c.pc # "idle" => c.target = cluster.Dialer.ProxyURL.Host
        /\ c.sent \in {<<>>, <<connectRequest(c.addr)>>}
        /\ c.pc = "done" =>
               /\ (c.result.conn # "none") <=> (c.reply # NoReply /\ Is200(c.reply))
               /\ (c.result.conn # "none") <=> (c.result.err = NoErr)
               /\ (c.reply.wellFormed /\ ~Is200(c.reply)) =>
                      Contains(c.result.err.text, c.reply.statusText)
        /\ (c.pc = "done" /\ c.result.conn # "none") =>
               c.out \o c.br \o c.inbox \o c.pending = c.payload

\* a step changes the state of one call at most, and once a call has started
\* no step changes the cluster handle with its ProxyURL or the TLS options
StepOfOneCall ==
    /\ \A i, j \in Calls : (i # j /\ dial'[i] # dial[i]) => dial'[j] = dial[j]
    /\ Dialing => (cluster' = cluster /\ SslOpts' = SslOpts /\ hostDialer' = hostDialer)

\* C18: in every interleaving of the DialContext calls on one ProxyDialer,
\* each call dials the proxy of the cluster, sends the request for its own
\* address, returns what its own reply determines and its connection yields
\* the bytes sent on it; no step of a call changes the state of another call,
\* the ProxyURL or the TLS options.
C18_CallsDoNotInterfere ==
    /\ [](\A i \in Calls : OwnExchange(i))
    /\ [][StepOfOneCall]_vars

\* two calls that overlapped, each with its connection and its own bytes read
C18_Witness ==
    /\ dial[1].pc = "done"
    /\ dial[2].pc = "done"
    /\ dial[1].addr # dial[2].addr
    /\ dial[1].result.conn = "BufferedConn"
    /\ dial[2].result.conn = "net.Conn"
    /\ dial[1].out = <<"x">>
    /\ dial[2].out = <<"y">>
    /\ SslOpts # NoSslOpts

(***************************************************************************)
(* Roles                                                                   *)
(***************************************************************************)
RoleInit == InitIn({NoProxyEnv})

\* the roles the callers pass
RoleInputs == {MkRole(n, l, s) : n \in RoleNames, l \in BOOLEAN, s \in BOOLEAN}

RoleNext ==
    \/ NewClusterConfig
    \/ \E k \in AuthKeyspaces : SetSystemAuthKeyspace(k)
    \/ Session = "nil" /\ CreateSession(TRUE)
    \/ \E r \in RoleInputs : CreateRole(r)
    \/ \E r \in RoleInputs : UpdateRole(r)
    \/ \E r \in RoleInputs : DeleteRole(r)
    \/ \E n \in RoleNames : GetRole(n)

RoleSpec == RoleInit /\ [][RoleNext]_vars

\* the operations on the role name that succeeded, oldest first
OpsOn(name) == SelectSeq(roleOps, LAMBDA o : o.role.Role = name)

\* what the claim lets GetRole(name) return after the operations that succeeded
ExpectedOfOps(name) ==
    LET ops == OpsOn(name)
        last == ops[Len(ops)]
    IN  IF ops = <<>> \/ last.op = "DeleteRole"
        THEN [found |-> FALSE, login |-> FALSE, super |-> FALSE]
        ELSE [found |-> TRUE, login |-> last.role.CanLogin, super |-> last.role.IsSuperuser]

\* GetRole returned what e says
ReturnedAs(e) ==
    IF e.found
    THEN /\ roleRet.err = NoErr
         /\ roleRet.role.Role = roleRet.name
         /\ roleRet.role.CanLogin = e.login
         /\ roleRet.role.IsSuperuser = e.super
    ELSE /\ roleRet.err # NoErr
         /\ roleRet.err.text = <<"not found">>

\* C20 as stated: after any successful role operations GetRole(name) returns
\* the role with the flags of the last successful create or update of the
\* name, and "not found" when the name was never created or was deleted last.
C20_AsStated ==
    roleRet.op = "GetRole" => ReturnedAs(ExpectedOfOps(roleRet.name))

\* the cluster names the keyspace in which the server keeps its roles
KeyspaceMatches == cluster.SystemAuthKeyspaceName = ServerAuthKeyspace

\* C20: when the cluster's system-auth keyspace is the server's, GetRole(name)
\* after any successful role operations returns the role with the flags of
\* the last successful create or update of the name and "not found" when the
\* name was deleted last; for a name no operation succeeded on it returns
\* "not found" unless the server had the role from the start (the default
\* superuser), which it returns as the server holds it.
C20_GetRoleReflectsLastOperation ==
    (roleRet.op = "GetRole" /\ KeyspaceMatches) =>
        IF OpsOn(roleRet.name) = <<>> /\ roleRet.name \in DOMAIN InitialRoles
        THEN ReturnedAs([found |-> TRUE,
                         login |-> InitialRoles[roleRet.name].can_login,
                         super |-> InitialRoles[roleRet.name].is_superuser])
        ELSE ReturnedAs(ExpectedOfOps(roleRet.name))

\* GetRole after a create and an update that changed both flags
C20_Witness ==
    /\ roleRet.op = "GetRole"
    /\ roleRet.name = "testRole"
    /\ Len(roleOps) = 2
    /\ roleOps[1].op = "CreateRole"
    /\ roleOps[2] = [op |-> "UpdateRole", role |-> MkRole("testRole", TRUE, FALSE)]
    /\ roleRet.role = MkRole("testRole", TRUE, FALSE)

\* the last call was one of the three role functions that write
RoleWritten == roleRet.op \in {"CreateRole", "UpdateRole", "DeleteRole"}

\* C26: CreateRole, UpdateRole and DeleteRole return an error and send no
\* statement to the server when the role name has a character that is no
\* letter, no digit and not an underscore.
C26_InvalidNameSendsNoStatement ==
    (RoleWritten /\ validateRoleName(roleRet.name) # NoErr) =>
        /\ roleRet.err # NoErr
        /\ roleRet.stmt = <<>>

\* NewClusterConfigWithDns returned an error to Configure
ClusterConfigFailed == Called("NewClusterConfigWithDns") /\ pc = "failed"

\* C27: once NewClusterConfigWithDns has returned an error, Configure has
\* recorded it and calls nothing on the client it got back: the failed call
\* is the last call Configure makes.
C27_NothingAfterFailedClusterConfig ==
    ClusterConfigFailed =>
        /\ hasError(diags)
        /\ calls[Len(calls)] = "NewClusterConfigWithDns"

(***************************************************************************)
(* The cluster handle under repeated SetTLS and CreateSession calls        *)
(***************************************************************************)
HandleInit == InitIn(ProviderEnvs)

HandleNext ==
    \/ \E dns \in DnsAddresses : NewClusterConfigWithDns(dns)
    \/ \E ca \in CACerts, cert \in ClientCerts, key \in ClientKeys, v \in BOOLEAN :
           SetTLS(ca, cert, key, v)
    \/ \E ok \in BOOLEAN : CreateSession(ok)

HandleSpec == HandleInit /\ [][HandleNext]_vars

\* the step is the return of a Cluster operation with an error
ReturnsError ==
    /\ Len(handleRet') = Len(handleRet) + 1
    /\ handleRet'[Len(handleRet')].err # NoErr

\* the fields of the handle: the cluster configuration with its TLS options,
\* the host dialer with its TLS configuration, and the session
handle == <<cluster, SslOpts, hostDialer, Authenticator, Session>>

\* C28: a SetTLS or CreateSession call that returns an error leaves the TLS
\* options set before and the Session field as they were.
C28_FailedCallLeavesHandle == [][ReturnsError => UNCHANGED handle]_vars

\* a SetTLS call failed on a handle that has TLS options from an earlier
\* call, and a CreateSession call failed after it
C28_Witness ==
    /\ Len(handleRet) = 3
    /\ handleRet[1] = [op |-> "SetTLS", err |-> NoErr]
    /\ handleRet[2].op = "SetTLS" /\ handleRet[2].err # NoErr
    /\ handleRet[3].op = "CreateSession" /\ handleRet[3].err # NoErr
    /\ SslOpts # NoSslOpts

(***************************************************************************)
(* Grants                                                                  *)
(***************************************************************************)
GrantInit == InitIn({NoProxyEnv})

\* the role of newTestClusterWithTableAndRole
testRole == MkRole("testRole", FALSE, FALSE)

GrantNext ==
    \/ NewClusterConfig
    \/ Session = "nil" /\ CreateSession(TRUE)
    \/ CreateRole(testRole)
    \/ \E g \in GrantInputs : CreateGrant(g)
    \/ \E g \in GrantInputs : DeleteGrant(g)
    \/ \E g \in GrantInputs : GetGrant(g)
    \/ \E f \in GrantInputs : \E t \in GrantInputs \ {f} : UpdateGrant(f, t)
    \/ \E g \in GrantInputs : GetPermissionStrs(g)

GrantSpec == GrantInit /\ [][GrantNext]_vars

\* the last write that succeeded, and the one before it
LastWrite == writes[Len(writes)]
PrevWrite == writes[Len(writes) - 1]

\* the resource and the permissions the grant g stands for on the server
ResourceOf(g) == namedResource(createGrantTemplate(g)).res
PermissionsOf(g) == statementPermissions(createGrantTemplate(g), ResourceOf(g))

\* the last call is GetGrant(g) and has the grants the write w left
GetGrantAfter(w) ==
    /\ grantRet.op = "GetGrant"
    /\ grantRet.grant = w.grant

\* the last two writes are CreateGrant(g), then DeleteGrant(g)
CreatedThenDeleted ==
    /\ Len(writes) = 2
    /\ PrevWrite.op = "CreateGrant"
    /\ LastWrite.op = "DeleteGrant"
    /\ LastWrite.grant = PrevWrite.grant

\* one entry for the grant's role, resource and privilege
OneEntry(g) ==
    <<[Role |-> g.RoleName, Username |-> g.RoleName,
       Resource |-> shownResource(ResourceOf(g)), Permission |-> ToUpper(g.Privilege)]>>

\* C21 as stated: GetGrant(g) after a successful CreateGrant(g) finds one
\* entry for g's role, resource and privilege; after a following successful
\* DeleteGrant(g) it finds nothing and returns no error, and the grants are
\* those held before the create.
C21_AsStated ==
    /\ (writes # <<>> /\ LastWrite.op = "CreateGrant" /\ GetGrantAfter(LastWrite)) =>
           /\ grantRet.found
           /\ grantRet.permissions = OneEntry(grantRet.grant)
    /\ CreatedThenDeleted =>
           /\ grants = PrevWrite.before
           /\ GetGrantAfter(LastWrite) => (~grantRet.found /\ grantRet.err = NoErr)

\* before the write w the role held none of the permissions of w's grant, on
\* its resource or on a resource above it
Fresh(w) ==
    \A x \in w.before :
        ~(/\ x.role = w.grant.RoleName
          /\ x.permission \in PermissionsOf(w.grant)
          /\ \E k \in 1..Len(WithParents(ResourceOf(w.grant))) :
                 WithParents(ResourceOf(w.grant))[k] = x.resource)

\* one entry for each permission the grant's privilege stands for
EntriesOf(g) ==
    listRows({[role |-> g.RoleName, resource |-> ResourceOf(g), permission |-> p] :
                  p \in PermissionsOf(g)},
             g.RoleName, <<ResourceOf(g)>>, PermissionsOf(g), 1)

\* C21: when the role held none of g's permissions on g's resource or above
\* it before, GetGrant(g) after a successful CreateGrant(g) finds one entry for
\* each permission g's privilege stands for (one for a single permission);
\* after a following successful DeleteGrant(g) it finds nothing and returns
\* no error, and the grants are those held before the create.
C21_CreateThenDeleteRestores ==
    /\ (writes # <<>> /\ LastWrite.op = "CreateGrant" /\ GetGrantAfter(LastWrite)
        /\ Fresh(LastWrite)) =>
           /\ grantRet.found
           /\ grantRet.permissions = EntriesOf(grantRet.grant)
           /\ Cardinality(PermissionsOf(grantRet.grant)) = 1 =>
                  grantRet.permissions = OneEntry(grantRet.grant)
    /\ (CreatedThenDeleted /\ Fresh(PrevWrite)) =>
           /\ grants = PrevWrite.before
           /\ GetGrantAfter(LastWrite) => (~grantRet.found /\ grantRet.err = NoErr)

\* the grant of TestGrantMethods was created, deleted and looked up
C21_Witness ==
    /\ CreatedThenDeleted
    /\ Fresh(PrevWrite)
    /\ LastWrite.grant = MkGrant("testRole", "select", "table", "cycling", "cyclist_name")
    /\ GetGrantAfter(LastWrite)
    /\ ~grantRet.found

\* the last call was UpdateGrant
Updated == grantRet.op = "UpdateGrant"

\* C25: UpdateGrant sends the GRANT for toGrant only after the server accepted
\* the REVOKE for fromGrant, and when it returns an error the grants of the
\* server are those held before the call.
C25_UpdateGrantAllOrNothing ==
    Updated =>
        /\ grantRet.stmts[1] = deleteGrantTemplate(grantRet.grant)
        /\ Len(grantRet.stmts) = 2 =>
               /\ grantRet.answers[1] = NoErr
               /\ grantRet.stmts[2] = createGrantTemplate(grantRet.to)
        /\ grantRet.err # NoErr => grants = grantRet.before

\* the last call was GetGrant
Looked == grantRet.op = "GetGrant"

\* C29: GetGrant returns found = false with a nil error only when the server
\* ran the LIST and returned no rows; when the server refused the statement
\* GetGrant returns a non-nil error.
C29_FailedReadIsAnError ==
    Looked =>
        /\ (~grantRet.found /\ grantRet.err = NoErr) => grantRet.answers[1] = NoErr
        /\ grantRet.answers[1] # NoErr => grantRet.err # NoErr

\* the resource types getResourceName knows
KnownResourceTypes == {"ALL KEYSPACES", "KEYSPACE", "TABLE", "ALL ROLES", "ROLE"}

\* C30: for a grant of one of the five resource types, in any letter case,
\* the resource name GetPermissionStrs looks up is the resource the GRANT
\* statement of CreateGrant names from Keyspace and Identifier; for another
\* type GetPermissionStrs returns no permissions and no error and sends no
\* statement.
C30_LookupNamesGrantedResource ==
    grantRet.op = "GetPermissionStrs" =>
        IF ToUpper(grantRet.grant.ResourceType) \in KnownResourceTypes
        THEN grantRet.resourceName = ResourceOf(grantRet.grant)
        ELSE /\ grantRet.permissions = <<>>
             /\ grantRet.err = NoErr
             /\ grantRet.stmts = <<>>

(***************************************************************************)
(* The grant resource and the role resource                                *)
(***************************************************************************)
ResourceInit == InitIn({NoProxyEnv})

\* the plans Terraform proposes to ModifyPlan for the state s: the plan of a
\* configuration when the resource is created; none when it is destroyed,
\* the state itself when nothing changed, or the plan of another
\* configuration
ProposedPlans(s) ==
    IF s = RawNull THEN GrantPlans
    ELSE {RawNull, s, grantPlan("testRole", "ALTER", "KEYSPACE", Str("cycling"), Null)}

ResourceNext ==
    \/ NewClusterConfig
    \/ Session = "nil" /\ CreateSession(TRUE)
    \/ \E p \in RolePlans : roleResource_Create(p)
    \/ \E p \in RolePlans : roleResource_Update(p)
    \/ roleResource_Read
    \/ roleResource_ImportState("testRole")
    \/ \E p \in GrantPlans : grantResource_Create(p)
    \/ grantResource_Read
    \/ \E i \in GrantImportIDs : grantResource_ImportState(i)
    \/ \E s \in {RawNull, tf.grantState} : \E p \in ProposedPlans(s) :
           grantResource_ModifyPlan(s, p)
    \/ \E g \in OutsideGrants : CreateGrant(g)
    \/ tf.grantState # RawNull /\ \E g \in OutsideGrants : DeleteGrant(g)

ResourceSpec == ResourceInit /\ [][ResourceNext]_vars

\* two states of a resource that differ in last_updated at most
SameButLastUpdated(a, b) == [a EXCEPT !.LastUpdated = Null] = [b EXCEPT !.LastUpdated = Null]

\* the grant resource imported an id
Imported == tf.resp.res = "grant" /\ tf.resp.op = "ImportState"

\* Create stored a state for the grant, and the server holds the grants it
\* held then
GrantCreated == tf.grantState # RawNull /\ grants = tf.grantDb

\* C22: importing a grant by the id Create stored gives the state Create
\* stored, last_updated apart, whatever the keyspace and the identifier of
\* the grant; an id that does not split into five parts on '|' is rejected
\* with an error and sets no state.
C22_ImportEqualsCreate ==
    Imported =>
        /\ (GrantCreated /\ tf.resp.req.ID = tf.grantState.ID.value) =>
               /\ tf.resp.Diagnostics = <<>>
               /\ SameButLastUpdated(tf.resp.State, tf.grantState)
        /\ Len(Split(tf.resp.req.ID, "|")) # 5 =>
               /\ tf.resp.Diagnostics # <<>>
               /\ tf.resp.State = RawNull

\* Read refreshed the state imported by the id of the role Create or Update
\* stored last, or the state Update stored, and the server holds the roles
\* it held then
RoleRefreshed ==
    /\ tf.resp.res = "role" /\ tf.resp.op = "Read" /\ tf.resp.Diagnostics = <<>>
    /\ tf.rolePlanned # RawNull
    /\ roles = tf.roleDb
    /\ \/ tf.resp.req.State = roleImportStateOf(tf.rolePlanned.ID.value)
       \/ tf.plannedBy = "Update" /\ tf.resp.req.State = tf.rolePlanned

\* C23: the state of a role after import by its id and Read, and the state
\* Read gives after Update, equal the state Create or Update stored from the
\* plan on id, role, can_login, is_superuser and member_of.
C23_RefreshEqualsPlanned ==
    RoleRefreshed => SameButLastUpdated(tf.resp.State, tf.rolePlanned)

\* C24: ModifyPlan marks the replacement on permissions and puts the list
\* read from the database into the plan exactly when state and plan both
\* have a value and the list read differs from the list in state; otherwise
\* the plan stays as requested; Read leaves the state as it was.
C24_ModifyPlanReplacesOnDrift ==
    /\ (tf.resp.res = "grant" /\ tf.resp.op = "ModifyPlan") =>
           LET State == tf.resp.req.State
               Plan == tf.resp.req.Plan
               inDb == GetGrantPermissions(tf.resp.grants, cluster.SystemAuthKeyspaceName,
                                           grantOf(State))
               drift == /\ State # RawNull
                        /\ Plan # RawNull
                        /\ inDb.err = NoErr
                        /\ inDb.permissions # State.Permissions.elems
           IN  IF drift
               THEN /\ tf.resp.RequiresReplace = <<"permissions">>
                    /\ tf.resp.Plan =
                           [Plan EXCEPT !.Permissions = ListValueFrom(inDb.permissions)]
               ELSE /\ tf.resp.RequiresReplace = <<>>
                    /\ tf.resp.Plan = Plan
    /\ (tf.resp.res = "grant" /\ tf.resp.op = "Read") =>
           /\ tf.resp.State = tf.resp.req.State
           /\ tf.grantState = tf.resp.req.State

\* ModifyPlan was called on a state whose permissions are no longer those of
\* the database, and marked the replacement
C24_Witness ==
    /\ tf.resp.res = "grant" /\ tf.resp.op = "ModifyPlan"
    /\ tf.resp.req.State # RawNull
    /\ tf.resp.RequiresReplace = <<"permissions">>
    /\ tf.resp.Plan.Permissions # tf.resp.req.State.Permissions

====
